---- MODULE Spec2Model ----
(***************************************************************************)
(* Model of the ask orchestration workflow of portfolio-agent:             *)
(* usecase.AskService (Ask, ensureConfig, loadSSMParams), the structured   *)
(* response parser, the OpenAI client's key resolution and the DynamoDB    *)
(* repository (GetConversationTurnCount, GetHistory, SaveCompletedTurn).   *)
(*                                                                         *)
(* Strings are sequences of characters; a character is a TLA+ string.      *)
(* " " is a white-space character, "E9" stands for a non-ASCII letter that *)
(* takes two bytes in UTF-8, every other character takes one byte.         *)
(***************************************************************************)
EXTENDS Integers, Sequences, FiniteSets, TLC

\* ---------------------------------------------------------------- bounds
NumProcs == 2
MaxAsks == 2
MaxMembers == 2
MaxRecords == 3

\* ------------------------------------------------------ program constants
defaultMaxContext == 20
defaultMaxQuestion == 300
maxConversationTurns == 10
statusComplete == "complete"

Procs == 1..NumProcs
NoProc == 0

\* ----------------------------------------------------------------- strings
IsSpace(c) == c = " "

ByteWidth(c) == IF c = "E9" THEN 2 ELSE 1

RECURSIVE GoLen(_)
\* Go's builtin len on a string: the number of bytes.
GoLen(s) == IF s = <<>> THEN 0 ELSE ByteWidth(Head(s)) + GoLen(Tail(s))

\* The number of characters (runes) of a string.
RuneCount(s) == Len(s)

RECURSIVE TrimLeft(_)
TrimLeft(s) == IF s # <<>> /\ IsSpace(Head(s)) THEN TrimLeft(Tail(s)) ELSE s

RECURSIVE TrimRight(_)
TrimRight(s) ==
  IF s # <<>> /\ IsSpace(s[Len(s)]) THEN TrimRight(SubSeq(s, 1, Len(s) - 1)) ELSE s

\* strings.TrimSpace
TrimSpace(s) == TrimRight(TrimLeft(s))

RECURSIVE Reverse(_)
Reverse(s) == IF s = <<>> THEN <<>> ELSE Append(Reverse(Tail(s)), Head(s))

\* The first n elements of a sequence (all of it when it is shorter).
Take(s, n) == SubSeq(s, 1, IF Len(s) < n THEN Len(s) ELSE n)

\* ------------------------------------------------------------------ errors
\* A Go error is its Unwrap chain, outermost first.  A node either has an
\* HTTPStatusCode method (coder) or not.
PlainErr == [coder |-> FALSE, code |-> 0]
StatusErr(n) == [coder |-> TRUE, code |-> n]
NoErr == <<>>

\* fmt.Errorf("...: %w", err)
Wrap(err) == <<PlainErr>> \o err

\* A type assertion on the error itself instead of errors.As.
upstreamStatusCode_NoUnwrap(err) ==
  IF err # <<>> /\ Head(err).coder THEN <<Head(err).code, TRUE>> ELSE <<0, FALSE>>

RECURSIVE upstreamStatusCode(_)
\* errors.As(err, &httpStatusCoder): the first node of the chain that has the
\* method; the result is <<status, ok>>.
upstreamStatusCode(err) ==
  IF err = <<>> THEN <<0, FALSE>>
  ELSE IF Head(err).coder THEN <<Head(err).code, TRUE>>
  ELSE upstreamStatusCode(Tail(err))

ErrorInvalidInput == "INVALID_INPUT"
ErrorInvalidQuestion == "INVALID_QUESTION"
ErrorRateLimited == "RATE_LIMITED"
ErrorUpstream == "UPSTREAM_ERROR"
ErrorInternal == "INTERNAL_ERROR"

\* newError(code, reason, err); NoResult is the nil error.
newError(code, reason, err) == [Code |-> code, Reason |-> reason, Err |-> err]
NoResult == [Code |-> "", Reason |-> "", Err |-> NoErr]

\* AskOutput{}
EmptyOutput == [Answer |-> <<>>, ConversationID |-> <<>>]

\* ------------------------------------------------------------ transport
\* The body of an event: no text at all, text that is no JSON, a JSON value
\* that does not fit askRequest (an array, or a question that is a number),
\* the JSON null, or an object with the question and the conversation id
\* (each empty when the member is absent).
EventBody(kind, q, cid) == [Kind |-> kind, Question |-> q, ConversationID |-> cid]
NoEvent == EventBody("none", <<>>, <<>>)

\* json.Unmarshal([]byte(event.Body), &req) returns no error.
Unmarshals(body) == body.Kind \in {"object", "null"}

\* events.APIGatewayProxyResponse with the members of its JSON body, and the
\* error Handle returns with it.
Response(status, body) == [StatusCode |-> status, Body |-> body, Err |-> NoErr]
NoResponse == Response(0, [none |-> TRUE])

\* An error that is no *usecase.Error and wraps none.
Unclassified(err) == [Code |-> "", Reason |-> "", Err |-> err]

\* ------------------------------------------------- structured LLM output
\* The text Chat returns is a sequence of lexical items: a JSON object with
\* its members in order, the JSON null, another JSON value (number, string,
\* array, boolean), white space, or text that is no JSON at all.
JBool(b) == [ty |-> "bool", b |-> b, s |-> <<>>]
JString(s) == [ty |-> "string", b |-> FALSE, s |-> s]
JNull == [ty |-> "null", b |-> FALSE, s |-> <<>>]
JNumber == [ty |-> "number", b |-> FALSE, s |-> <<>>]

Member(k, v) == [k |-> k, v |-> v]
JObject(members) == [t |-> "object", members |-> members]
JNullItem == [t |-> "null", members |-> <<>>]
JOtherItem == [t |-> "other", members |-> <<>>]
JSpace == [t |-> "space", members |-> <<>>]
JJunk == [t |-> "junk", members |-> <<>>]

\* scopedAnswerResponse, and the result of decoding: ok is err == nil.
ScopedAnswer(inScope, ans) == [ok |-> TRUE, InScope |-> inScope, Answer |-> ans]
ParseError == [ok |-> FALSE, InScope |-> FALSE, Answer |-> <<>>]

\* encoding/json matches a member name to a struct field exactly or, failing
\* that, case-insensitively.
FieldOf(k) ==
  IF k \in {"in_scope", "IN_SCOPE"} THEN "in_scope"
  ELSE IF k \in {"answer", "Answer"} THEN "answer"
  ELSE "unknown"

RECURSIVE DecodeMembers(_, _)
\* Decoding the members of an object into the struct, in order (a later
\* duplicate overwrites, a null leaves the field alone, an unknown member or
\* a value of the wrong type is an error).
DecodeMembers(members, acc) ==
  IF members = <<>> THEN acc
  ELSE LET m == Head(members)
           f == FieldOf(m.k)
       IN  IF f = "unknown" THEN ParseError
           ELSE IF m.v.ty = "null" THEN DecodeMembers(Tail(members), acc)
           ELSE IF f = "in_scope" /\ m.v.ty = "bool"
             THEN DecodeMembers(Tail(members), [acc EXCEPT !.InScope = m.v.b])
           ELSE IF f = "answer" /\ m.v.ty = "string"
             THEN DecodeMembers(Tail(members), [acc EXCEPT !.Answer = m.v.s])
           ELSE ParseError

RECURSIVE SkipSpace(_)
SkipSpace(text) ==
  IF text # <<>> /\ Head(text).t = "space" THEN SkipSpace(Tail(text)) ELSE text

RECURSIVE TrimSpaceItems(_)
TrimSpaceItems(text) ==
  IF text # <<>> /\ text[Len(text)].t = "space"
    THEN TrimSpaceItems(SubSeq(text, 1, Len(text) - 1))
    ELSE SkipSpace(text)

\* dec.Decode(&out): the next value of the stream decoded into the struct.
DecodeScoped(text) ==
  LET rest == SkipSpace(text)
  IN  IF rest = <<>> THEN ParseError
      ELSE IF Head(rest).t = "null" THEN ScopedAnswer(FALSE, <<>>)
      ELSE IF Head(rest).t = "object"
        THEN DecodeMembers(Head(rest).members, ScopedAnswer(FALSE, <<>>))
      ELSE ParseError

\* The second dec.Decode(&struct{}{}) returns io.EOF exactly when nothing but
\* white space follows the first value.
AtEOF(text) == SkipSpace(Tail(SkipSpace(text))) = <<>>

\* The parser without the check of the in-scope answer.
parseScopedAnswer_AllowBlank(text) ==
  LET trimmed == TrimSpaceItems(text)
      first == DecodeScoped(trimmed)
  IN  IF ~first.ok THEN ParseError
      ELSE IF ~AtEOF(trimmed) THEN ParseError
      ELSE first

\* The parser handing out the answer without the white space around it.
parseScopedAnswer_TrimAnswer(text) ==
  LET trimmed == TrimSpaceItems(text)
      first == DecodeScoped(trimmed)
  IN  IF ~first.ok THEN ParseError
      ELSE IF ~AtEOF(trimmed) THEN ParseError
      ELSE IF first.InScope /\ TrimSpace(first.Answer) = <<>> THEN ParseError
      ELSE [first EXCEPT !.Answer = TrimSpace(@)]

\* parseScopedAnswer
parseScopedAnswer(text) ==
  LET trimmed == TrimSpaceItems(text)
      first == DecodeScoped(trimmed)
  IN  IF ~first.ok THEN ParseError
      ELSE IF ~AtEOF(trimmed) THEN ParseError
      ELSE IF first.InScope /\ TrimSpace(first.Answer) = <<>> THEN ParseError
      ELSE first

ScopedJSON(inScope, ans) ==
  << JObject(<< Member("in_scope", JBool(inScope)), Member("answer", JString(ans)) >>) >>

\* Texts the model returns in the workflow: an in-scope answer, an in-scope
\* blank answer, an out-of-scope verdict without and with an answer, an
\* answer with an extra member, and text that is no JSON.
RawOutputs ==
  { ScopedJSON(TRUE, <<"y">>),
    ScopedJSON(TRUE, <<" ">>),
    ScopedJSON(FALSE, <<>>),
    ScopedJSON(FALSE, <<"y">>),
    << JObject(<< Member("in_scope", JBool(TRUE)), Member("answer", JString(<<"y">>)),
                  Member("extra", JBool(TRUE)) >>) >>,
    << JJunk >> }

\* ------------------------------------------------------------ input domains
\* Questions a client sends: empty, blank, padded, at and over a small limit,
\* and one made of two-byte characters.
Questions ==
  { <<>>, <<" ">>, <<" ", "a", " ">>, <<"a", "a">>, <<"a", "a", "a">>, <<"E9", "E9">> }

ClientConvID == <<"c1">>

\* Conversation ids a client sends: absent, blank, or the padded id.
ConversationIDs == { <<>>, <<" ">>, <<" ">> \o ClientConvID }

\* A generator that returns the same id at every call.
newUUID_Constant(n) == << "uuid-1" >>

\* uuid.NewString(): a fresh id per call.
newUUID(n) == << "uuid-" \o ToString(n) >>

ConvKeys == {ClientConvID} \cup {newUUID(n) : n \in 1..MaxAsks}

\* MAX_QUESTION_LENGTH and MAX_CONTEXT_ITEMS values the service is built with.
ConfiguredMaxQuestionLen == {0, 2}
ConfiguredMaxContextItems == {-1, 2}

\* Turn counts of the client's conversation found in the table at start-up.
SeedTurns == {0, 9, 10}

\* Failures a collaborator can return: an error without a status, one with a
\* status, each bare or wrapped once by the client.
HTTPFailures ==
  { <<PlainErr>>, Wrap(<<PlainErr>>),
    <<StatusErr(429)>>, Wrap(<<StatusErr(429)>>),
    <<StatusErr(500)>>, Wrap(<<StatusErr(500)>>) }

StoreFailures == { Wrap(<<PlainErr>>) }

ParamFailures == { Wrap(<<PlainErr>>) }

\* context.Canceled or context.DeadlineExceeded, as the collaborator that
\* was given the ctx wraps it: an error without an HTTP status.
CtxErr == Wrap(<<PlainErr>>)

\* Failures of the API key fetch: the error of the parameter store API, with
\* or without an HTTP status of its own, as paramstore.Client.GetParameter and
\* then fetchAPIKeyFromParamStore wrap it.
KeyFailures == { Wrap(Wrap(<<PlainErr>>)), Wrap(Wrap(<<StatusErr(429)>>)) }

\* ------------------------------------------------------------------- state
VARIABLES
  maxQuestionLenIn,  \* maxQuestionLen argument of NewAskService
  maxContextItemsIn, \* maxContextItems argument of NewAskService
  maxQuestionLen,    \* AskService.maxQuestionLen
  maxContextItems,   \* AskService.maxContextItems
  cacheMu,           \* AskService.cacheMu: the process holding the write lock
  cacheLoaded,       \* AskService.cacheLoaded
  loads,             \* number of executions of loadSSMParams started
  resume, interests, pinnedPrompt, openaiModel, \* the cached parameters
  keyDone,           \* openai.Client.keyOnce has run
  keyErr,            \* openai.Client.keyErr
  apiKey,            \* openai.Client.apiKey
  keyOnce,           \* openai.Client.keyOnce: the process running its function
  keyFetches,        \* number of fetches of the API key from the parameter store
  resolved,          \* what resolveAPIKey returned to the invocation
  msgs,              \* table: MSG# items of each conversation, by sort key
  meta,              \* table: META# item of each conversation (turns), or NoMeta
  uuids,             \* number of ids newUUID has produced
  asks,              \* number of Ask invocations started
  pc,                \* position of each invocation inside Ask
  in,                \* AskInput of the running invocation
  fetched,           \* loadSSMParams: the values fetched so far
  convID,            \* Ask: convID
  existingTurns,     \* Ask: existingTurns
  history,           \* Ask: history
  raw,               \* Ask: raw
  parsed,            \* Ask: decision and err, as parseScopedAnswer returned them
  answer,            \* Ask: decision.Answer
  cancelledAt,       \* where the invocation stood when its ctx was done, or "none"
  waited,            \* the invocation was inside ensureConfig when a load in flight failed
  calls,             \* collaborator calls of the invocation, in order
  flagged,           \* what Moderate returned ("none" before it returns)
  saved,             \* arguments of the invocation's SaveCompletedTurn calls
  committed,         \* items the invocation's transaction put in the table
  sent,              \* messages the invocation passed to Chat
  result,            \* the error Ask returned
  out,               \* the AskOutput Ask returned
  event,             \* body of the event Handle received
  response           \* the response Handle returned

svcVars == <<maxQuestionLenIn, maxContextItemsIn, maxQuestionLen, maxContextItems>>
cacheVars == <<cacheMu, cacheLoaded, loads, resume, interests, pinnedPrompt, openaiModel>>
clientVars == <<keyDone, keyErr, apiKey, keyOnce, keyFetches>>
keyVars == <<clientVars, resolved>>
tableVars == <<msgs, meta>>
localVars == <<in, fetched, convID, existingTurns, history, raw, parsed, answer, flagged>>
traceVars == <<calls, saved, committed, sent, result, out>>
httpVars == <<event, response>>
vars ==
  <<svcVars, cacheVars, keyVars, tableVars, uuids, asks, pc, localVars, waited, cancelledAt,
    traceVars, httpVars>>

NoMeta == [exists |-> FALSE, turns |-> 0]
Meta(n) == [exists |-> TRUE, turns |-> n]

Message(text, ans, status) == [Text |-> text, Answer |-> ans, Status |-> status]

SeedMessage == Message(<<"a">>, <<"x">>, statusComplete)

\* NewAskService: non-positive limits are replaced by the defaults.
NewAskService_maxContextItems(n) == IF n <= 0 THEN defaultMaxContext ELSE n

NewAskService_maxQuestionLen(n) == IF n <= 0 THEN defaultMaxQuestion ELSE n

\* resolveAPIKey has not returned to the invocation; what it returns.
NotResolved == [apiKey |-> <<>>, keyErr |-> NoErr, done |-> FALSE]
Resolved(key, err) == [apiKey |-> key, keyErr |-> err, done |-> TRUE]

NoInput == [Question |-> <<>>, ConversationID |-> <<>>]

\* The state after NewAskService, openai.NewClient and repository.New, with the
\* table as earlier processes left it: the client's conversation holds the
\* records of one of the histories, and as many turns.
ConstructWith(questionLens, contextItems, histories) ==
  /\ maxQuestionLenIn \in questionLens
  /\ maxContextItemsIn \in contextItems
  /\ maxQuestionLen = NewAskService_maxQuestionLen(maxQuestionLenIn)
  /\ maxContextItems = NewAskService_maxContextItems(maxContextItemsIn)
  /\ cacheMu = NoProc
  /\ cacheLoaded = FALSE
  /\ loads = 0
  /\ resume = <<>> /\ interests = <<>> /\ pinnedPrompt = <<>> /\ openaiModel = <<>>
  /\ keyDone = FALSE
  /\ keyErr = NoErr
  /\ apiKey = <<>>
  /\ keyOnce = NoProc
  /\ keyFetches = 0
  /\ resolved = [p \in Procs |-> NotResolved]
  /\ \E h \in histories :
       /\ msgs = [c \in ConvKeys |-> IF c = ClientConvID THEN h ELSE <<>>]
       /\ meta = [c \in ConvKeys |->
                    IF c = ClientConvID /\ h # <<>> THEN Meta(Len(h)) ELSE NoMeta]
  /\ uuids = 0
  /\ asks = 0
  /\ pc = [p \in Procs |-> "idle"]
  /\ in = [p \in Procs |-> NoInput]
  /\ fetched = [p \in Procs |-> <<>>]
  /\ convID = [p \in Procs |-> <<>>]
  /\ existingTurns = [p \in Procs |-> 0]
  /\ history = [p \in Procs |-> <<>>]
  /\ raw = [p \in Procs |-> <<>>]
  /\ parsed = [p \in Procs |-> ParseError]
  /\ answer = [p \in Procs |-> <<>>]
  /\ waited = [p \in Procs |-> FALSE]
  /\ cancelledAt = [p \in Procs |-> "none"]
  /\ calls = [p \in Procs |-> <<>>]
  /\ flagged = [p \in Procs |-> "none"]
  /\ saved = [p \in Procs |-> <<>>]
  /\ committed = [p \in Procs |-> {}]
  /\ sent = [p \in Procs |-> <<>>]
  /\ result = [p \in Procs |-> NoResult]
  /\ out = [p \in Procs |-> EmptyOutput]
  /\ event = [p \in Procs |-> NoEvent]
  /\ response = [p \in Procs |-> NoResponse]

\* The same with one of the seeds as the number of completed turns of the
\* client's conversation.
Construct(questionLens, contextItems, seeds) ==
  ConstructWith(questionLens, contextItems, {[i \in 1..t |-> SeedMessage] : t \in seeds})

\* ------------------------------------------------------------ parameter store
\* The token the store holds at the n-th fetch of <prefix>/open-ai-token.
Token(n) == << "token", "fetch " \o ToString(n) >>

ParamNames == << "resume", "interests", "pinned_prompt", "config/openai_model" >>

\* The value the store returns for a name during the n-th load.
ParamValue(name, n) == << "value of " \o name, "load " \o ToString(n) >>

\* ------------------------------------------------------------------ table
\* GetConversationTurnCount: 0 when the conversation has no META# item.
GetConversationTurnCount(c) == IF meta[c].exists THEN meta[c].turns ELSE 0

\* The history handed out as the query returned it, newest first.
GetHistory_NoReverse(c, limit) == Take(Reverse(msgs[c]), limit)

\* GetHistory: the query reads newest first with a limit, the result is
\* reversed to chronological order.
GetHistory(c, limit) == Reverse(Take(Reverse(msgs[c]), limit))

\* Two separate PutItem calls, the second of which can fail alone.
TransactWriteItems_TwoPuts(c, msg, turns, ok) ==
  IF ok
    THEN [msgs |-> [msgs EXCEPT ![c] = Append(@, msg)],
          meta |-> [meta EXCEPT ![c] = Meta(turns)],
          put |-> {"message", "meta"}]
    ELSE [msgs |-> [msgs EXCEPT ![c] = Append(@, msg)], meta |-> meta,
          put |-> {"message"}]

\* The metadata Put with a condition: the turns are written only when they
\* are higher than the turns the item holds.
TransactWriteItems_KeepHigher(c, msg, turns, ok) ==
  IF ok
    THEN [msgs |-> [msgs EXCEPT ![c] = Append(@, msg)],
          meta |-> [meta EXCEPT ![c] =
                      IF meta[c].exists /\ meta[c].turns >= turns THEN @ ELSE Meta(turns)],
          put |-> {"message", "meta"}]
    ELSE [msgs |-> msgs, meta |-> meta, put |-> {}]

\* TransactWriteItems with the two Puts of SaveTurn: both items are written,
\* or, when the transaction is cancelled, none.
TransactWriteItems(c, msg, turns, ok) ==
  IF ok
    THEN [msgs |-> [msgs EXCEPT ![c] = Append(@, msg)],
          meta |-> [meta EXCEPT ![c] = Meta(turns)],
          put |-> {"message", "meta"}]
    ELSE [msgs |-> msgs, meta |-> meta, put |-> {}]

\* ------------------------------------------------------------------ prompt
ChatMessage(role, content) == [Role |-> role, Content |-> content]

promptContext(pinned, res, ints) ==
  [pinnedPrompt |-> pinned, resume |-> res, interests |-> ints]

\* buildPolicyPrompt: a fixed text.
buildPolicyPrompt == << "Role: ... Task: ... Approved Sources: ... Behavior Rules: ... Output Contract: ..." >>

RECURSIVE CollapseSpace(_)
\* strings.Join(strings.Fields(s), " ") of a string that does not start with
\* white space: every run of white space becomes one space.
CollapseSpace(s) ==
  IF s = <<>> THEN <<>>
  ELSE IF IsSpace(Head(s)) THEN <<" ">> \o CollapseSpace(TrimLeft(s))
  ELSE <<Head(s)>> \o CollapseSpace(Tail(s))

normalizePromptInput(s) == CollapseSpace(TrimSpace(s))

buildProfileContextPrompt(ctx) ==
  TrimSpace(ctx.pinnedPrompt) \o << "Portfolio Context: Resume:" >>
    \o normalizePromptInput(ctx.resume) \o << "Interests:" >>
    \o normalizePromptInput(ctx.interests)

\* A record replayed although its status is not complete.
historyToPromptMessages_AnyStatus(m) ==
  LET question == TrimSpace(m.Text)
      reply == TrimSpace(m.Answer)
  IN  IF question = <<>> \/ reply = <<>> THEN <<>>
      ELSE << ChatMessage("user", question), ChatMessage("assistant", reply) >>

\* historyToPromptMessages
historyToPromptMessages(m) ==
  LET question == TrimSpace(m.Text)
      reply == TrimSpace(m.Answer)
  IN  IF m.Status # statusComplete THEN <<>>
      ELSE IF question = <<>> \/ reply = <<>> THEN <<>>
      ELSE << ChatMessage("user", question), ChatMessage("assistant", reply) >>

RECURSIVE HistoryMessages(_)
\* buildPromptMessages, lines 31-33: the messages of the records, in order.
HistoryMessages(records) ==
  IF records = <<>> THEN <<>>
  ELSE historyToPromptMessages(Head(records)) \o HistoryMessages(Tail(records))

\* The builder without the profile context message.
buildPromptMessages_NoProfile(ctx, question, records) ==
  << ChatMessage("system", buildPolicyPrompt) >>
    \o HistoryMessages(records)
    \o << ChatMessage("user", question) >>

\* buildPromptMessages
buildPromptMessages(ctx, question, records) ==
  << ChatMessage("system", buildPolicyPrompt),
     ChatMessage("system", buildProfileContextPrompt(ctx)) >>
    \o HistoryMessages(records)
    \o << ChatMessage("user", question) >>

\* ------------------------------------------------------- decisions of Ask
\* The emptiness check on the untrimmed question.
validateQuestion_NoTrim(q, max) ==
  IF q = <<>> THEN "empty_question"
  ELSE IF GoLen(TrimSpace(q)) > max THEN "question_too_long"
  ELSE "ok"

\* Ask, lines 98-104: the validation of the question.
validateQuestion(q, max) ==
  IF TrimSpace(q) = <<>> THEN "empty_question"
  ELSE IF GoLen(TrimSpace(q)) > max THEN "question_too_long"
  ELSE "ok"

\* Ask, line 114: a conversation id was supplied.
clientSupplied(cid) == TrimSpace(cid) # <<>>

\* The limit compared with > instead of >=.
turnLimitReached_OffByOne(turns) == turns > maxConversationTurns

\* Ask, line 120.
turnLimitReached(turns) == turns >= maxConversationTurns

\* Ask, lines 127 and 151.
isRateLimited(err) ==
  LET r == upstreamStatusCode(err) IN r[2] /\ r[1] = 429

\* The count written back without the increment.
nextTurns_NoIncrement(turns) == turns

\* Ask, line 165: the turns argument of SaveCompletedTurn.
nextTurns(turns) == turns + 1

\* --------------------------------------------------------------- actions
\* The errors a collaborator call of p can return, and whether it can return
\* without one: a call made with a ctx that is done returns the ctx's error.
Cancelled(p) == cancelledAt[p] # "none"
CallFailures(p, failures) == IF Cancelled(p) THEN {CtxErr} ELSE failures
CallMaySucceed(p) == ~Cancelled(p)

\* A collaborator call of the invocation and whether it returned no error.
Call(p, op, ok) == calls' = [calls EXCEPT ![p] = Append(@, [op |-> op, ok |-> ok])]

\* A return with an error that still hands out what was computed.
Reject_KeepOutput(p, code, reason, err) ==
  /\ pc' = [pc EXCEPT ![p] = "rejected"]
  /\ result' = [result EXCEPT ![p] = newError(code, reason, err)]
  /\ out' = [out EXCEPT ![p] = [Answer |-> answer[p], ConversationID |-> convID[p]]]

Reject(p, code, reason, err) ==
  /\ pc' = [pc EXCEPT ![p] = "rejected"]
  /\ result' = [result EXCEPT ![p] = newError(code, reason, err)]
  /\ out' = [out EXCEPT ![p] = EmptyOutput]

Goto(p, where) ==
  /\ pc' = [pc EXCEPT ![p] = where]
  /\ UNCHANGED <<result, out>>

\* Ask is invoked with question q and conversation id cid: lines 97-104.
Invoke(p, q, cid) ==
  /\ asks' = asks + 1
  /\ in' = [in EXCEPT ![p] = [Question |-> q, ConversationID |-> cid]]
  /\ LET v == validateQuestion(q, maxQuestionLen)
     IN  IF v = "ok" THEN Goto(p, "ensureConfig")
         ELSE Reject(p, ErrorInvalidInput, v, NoErr)
  /\ UNCHANGED <<svcVars, cancelledAt, cacheVars, keyVars, tableVars, uuids, fetched, convID,
                 existingTurns, history, raw, parsed, answer, flagged, waited, calls, saved,
                 committed, sent>>

\* A caller invokes Ask with one of the questions and conversation ids.
Begin(p, questions, cids) ==
  /\ pc[p] = "idle"
  /\ asks < MaxAsks
  /\ \E q \in questions, cid \in cids : Invoke(p, q, cid)
  /\ UNCHANGED httpVars

\* ensureConfig, lines 176-181: the check under the read lock.
EnsureConfigRead(p) ==
  /\ pc[p] = "ensureConfig"
  /\ cacheMu = NoProc
  /\ Goto(p, IF cacheLoaded THEN "turnCheck" ELSE "lock")
  /\ UNCHANGED <<waited, asks, svcVars, cancelledAt, cacheVars, keyVars, tableVars, uuids, localVars, calls,
                 saved, committed, sent, httpVars>>

\* The write lock without the second check of cacheLoaded.
EnsureConfigLock_NoRecheck(p) ==
  /\ pc[p] = "lock"
  /\ cacheMu = NoProc
  /\ Goto(p, "load") /\ cacheMu' = p /\ loads' = loads + 1
  /\ UNCHANGED <<waited, asks, svcVars, cancelledAt, cacheLoaded, resume, interests, pinnedPrompt, openaiModel,
                 keyVars, tableVars, uuids, localVars, calls, saved, committed, sent, httpVars>>

\* The second check and the load without the write lock being free.
EnsureConfigLock_NoMutex(p) ==
  /\ pc[p] = "lock"
  /\ IF cacheLoaded
       THEN Goto(p, "turnCheck") /\ UNCHANGED <<cacheMu, loads>>
       ELSE Goto(p, "load") /\ cacheMu' = p /\ loads' = loads + 1
  /\ UNCHANGED <<waited, asks, svcVars, cancelledAt, cacheLoaded, resume, interests, pinnedPrompt, openaiModel,
                 keyVars, tableVars, uuids, localVars, calls, saved, committed, sent, httpVars>>

\* ensureConfig, lines 183-187: the write lock and the second check.
EnsureConfigLock(p) ==
  /\ pc[p] = "lock"
  /\ cacheMu = NoProc
  /\ IF cacheLoaded
       THEN Goto(p, "turnCheck") /\ UNCHANGED <<cacheMu, loads>>
       ELSE Goto(p, "load") /\ cacheMu' = p /\ loads' = loads + 1
  /\ UNCHANGED <<waited, asks, svcVars, cancelledAt, cacheLoaded, resume, interests, pinnedPrompt, openaiModel,
                 keyVars, tableVars, uuids, localVars, calls, saved, committed, sent, httpVars>>

\* The load that stores the resume in the cache as soon as it is fetched.
LoadParamWith_StoreEach(p, failures) ==
  /\ pc[p] = "load"
  /\ cacheMu = p
  /\ \/ \E err \in failures :
          /\ Call(p, "GetParameter", FALSE)
          /\ Reject(p, ErrorInternal, "ssm_load_error", Wrap(err))
          /\ fetched' = [fetched EXCEPT ![p] = <<>>]
          /\ cacheMu' = NoProc
          /\ waited' = [q \in Procs |->
               waited[q] \/ (q # p /\ pc[q] \in {"ensureConfig", "lock"})]
          /\ UNCHANGED <<cacheLoaded, loads, resume, interests, pinnedPrompt, openaiModel>>
     \/ LET got == Append(fetched[p], ParamValue(ParamNames[Len(fetched[p]) + 1], loads))
        IN  /\ Call(p, "GetParameter", TRUE)
            /\ UNCHANGED waited
            /\ IF Len(got) < Len(ParamNames)
                 THEN /\ fetched' = [fetched EXCEPT ![p] = got]
                      /\ Goto(p, "load")
                      /\ resume' = got[1]
                      /\ UNCHANGED <<cacheMu, cacheLoaded, loads, interests, pinnedPrompt,
                                     openaiModel>>
                 ELSE /\ fetched' = [fetched EXCEPT ![p] = <<>>]
                      /\ resume' = got[1]
                      /\ interests' = got[2]
                      /\ pinnedPrompt' = got[3]
                      /\ openaiModel' = got[4]
                      /\ cacheLoaded' = TRUE
                      /\ cacheMu' = NoProc
                      /\ UNCHANGED loads
                      /\ Goto(p, "turnCheck")
  /\ UNCHANGED <<asks, svcVars, cancelledAt, keyVars, tableVars, uuids, in, convID, existingTurns,
                 history, raw, parsed, answer, flagged, saved, committed, sent, httpVars>>

\* The load that marks the cache loaded with the first value fetched.
LoadParamWith_PublishEarly(p, failures) ==
  /\ pc[p] = "load"
  /\ cacheMu = p
  /\ \/ \E err \in failures :
          /\ Call(p, "GetParameter", FALSE)
          /\ Reject(p, ErrorInternal, "ssm_load_error", Wrap(err))
          /\ fetched' = [fetched EXCEPT ![p] = <<>>]
          /\ cacheMu' = NoProc
          /\ waited' = [q \in Procs |->
               waited[q] \/ (q # p /\ pc[q] \in {"ensureConfig", "lock"})]
          /\ UNCHANGED <<cacheLoaded, loads, resume, interests, pinnedPrompt, openaiModel>>
     \/ LET got == Append(fetched[p], ParamValue(ParamNames[Len(fetched[p]) + 1], loads))
        IN  /\ Call(p, "GetParameter", TRUE)
            /\ UNCHANGED waited
            /\ IF Len(got) < Len(ParamNames)
                 THEN /\ fetched' = [fetched EXCEPT ![p] = got]
                      /\ Goto(p, "load")
                      /\ resume' = got[1]
                      /\ cacheLoaded' = TRUE
                      /\ UNCHANGED <<cacheMu, loads, interests, pinnedPrompt, openaiModel>>
                 ELSE /\ fetched' = [fetched EXCEPT ![p] = <<>>]
                      /\ resume' = got[1]
                      /\ interests' = got[2]
                      /\ pinnedPrompt' = got[3]
                      /\ openaiModel' = got[4]
                      /\ cacheLoaded' = TRUE
                      /\ cacheMu' = NoProc
                      /\ UNCHANGED loads
                      /\ Goto(p, "turnCheck")
  /\ UNCHANGED <<asks, svcVars, cancelledAt, keyVars, tableVars, uuids, in, convID, existingTurns,
                 history, raw, parsed, answer, flagged, saved, committed, sent, httpVars>>

\* The load whose failure is handed to every caller waiting inside ensureConfig.
LoadParamWith_ShareFailure(p, failures) ==
  /\ pc[p] = "load"
  /\ cacheMu = p
  /\ \/ \E err \in failures :
          LET hit == {p} \cup {q \in Procs : pc[q] \in {"ensureConfig", "lock"}}
          IN  /\ Call(p, "GetParameter", FALSE)
              /\ pc' = [q \in Procs |-> IF q \in hit THEN "rejected" ELSE pc[q]]
              /\ result' = [q \in Procs |->
                   IF q \in hit THEN newError(ErrorInternal, "ssm_load_error", Wrap(err))
                   ELSE result[q]]
              /\ out' = [q \in Procs |-> IF q \in hit THEN EmptyOutput ELSE out[q]]
              /\ fetched' = [fetched EXCEPT ![p] = <<>>]
              /\ cacheMu' = NoProc
              /\ waited' = [q \in Procs |-> waited[q] \/ (q \in hit /\ q # p)]
              /\ UNCHANGED <<cacheLoaded, loads, resume, interests, pinnedPrompt, openaiModel>>
     \/ LET got == Append(fetched[p], ParamValue(ParamNames[Len(fetched[p]) + 1], loads))
        IN  /\ Call(p, "GetParameter", TRUE)
            /\ UNCHANGED waited
            /\ IF Len(got) < Len(ParamNames)
                 THEN /\ fetched' = [fetched EXCEPT ![p] = got]
                      /\ Goto(p, "load")
                      /\ UNCHANGED cacheVars
                 ELSE /\ fetched' = [fetched EXCEPT ![p] = <<>>]
                      /\ resume' = got[1]
                      /\ interests' = got[2]
                      /\ pinnedPrompt' = got[3]
                      /\ openaiModel' = got[4]
                      /\ cacheLoaded' = TRUE
                      /\ cacheMu' = NoProc
                      /\ UNCHANGED loads
                      /\ Goto(p, "turnCheck")
  /\ UNCHANGED <<asks, svcVars, cancelledAt, keyVars, tableVars, uuids, in, convID, existingTurns,
                 history, raw, parsed, answer, flagged, saved, committed, sent, httpVars>>

\* loadSSMParams: one GetParameter call; the fourth success fills the cache
\* (ensureConfig, lines 194-199), a failure aborts the load.
LoadParamWith(p, failures) ==
  /\ pc[p] = "load"
  /\ cacheMu = p
  /\ \/ \E err \in CallFailures(p, failures) :
          /\ Call(p, "GetParameter", FALSE)
          /\ Reject(p, ErrorInternal, "ssm_load_error", Wrap(err))
          /\ fetched' = [fetched EXCEPT ![p] = <<>>]
          /\ cacheMu' = NoProc
          /\ waited' = [q \in Procs |->
               waited[q] \/ (q # p /\ pc[q] \in {"ensureConfig", "lock"})]
          /\ UNCHANGED <<cacheLoaded, loads, resume, interests, pinnedPrompt, openaiModel>>
     \/ LET got == Append(fetched[p], ParamValue(ParamNames[Len(fetched[p]) + 1], loads))
        IN  /\ CallMaySucceed(p)
            /\ Call(p, "GetParameter", TRUE)
            /\ UNCHANGED waited
            /\ IF Len(got) < Len(ParamNames)
                 THEN /\ fetched' = [fetched EXCEPT ![p] = got]
                      /\ Goto(p, "load")
                      /\ UNCHANGED cacheVars
                 ELSE /\ fetched' = [fetched EXCEPT ![p] = <<>>]
                      /\ resume' = got[1]
                      /\ interests' = got[2]
                      /\ pinnedPrompt' = got[3]
                      /\ openaiModel' = got[4]
                      /\ cacheLoaded' = TRUE
                      /\ cacheMu' = NoProc
                      /\ UNCHANGED loads
                      /\ Goto(p, "turnCheck")
  /\ UNCHANGED <<asks, svcVars, cancelledAt, keyVars, tableVars, uuids, in, convID, existingTurns,
                 history, raw, parsed, answer, flagged, saved, committed, sent, httpVars>>

LoadParam(p) == LoadParamWith(p, ParamFailures)

\* Ask, lines 108-123: the conversation id and the turn check.
TurnCheck(p) ==
  /\ pc[p] = "turnCheck"
  /\ IF clientSupplied(in[p].ConversationID)
       THEN LET c == TrimSpace(in[p].ConversationID)
            IN  /\ convID' = [convID EXCEPT ![p] = c]
                /\ UNCHANGED uuids
                /\ \/ \E err \in CallFailures(p, StoreFailures) :
                        /\ Call(p, "GetConversationTurnCount", FALSE)
                        /\ Reject(p, ErrorInternal, "dynamodb_turn_count_error", err)
                        /\ UNCHANGED existingTurns
                   \/ LET n == GetConversationTurnCount(c)
                      IN  /\ CallMaySucceed(p)
                          /\ Call(p, "GetConversationTurnCount", TRUE)
                          /\ existingTurns' = [existingTurns EXCEPT ![p] = n]
                          /\ IF turnLimitReached(n)
                               THEN Reject(p, ErrorInvalidInput, "conversation_turn_limit", NoErr)
                               ELSE Goto(p, "moderate")
       ELSE /\ convID' = [convID EXCEPT ![p] = newUUID(uuids + 1)]
            /\ uuids' = uuids + 1
            /\ Goto(p, "moderate")
            /\ UNCHANGED <<existingTurns, calls>>
  /\ UNCHANGED <<waited, asks, svcVars, cancelledAt, cacheVars, keyVars, tableVars, in, fetched, history, raw, parsed,
                 answer, flagged, saved, committed, sent, httpVars>>

Pass == [Code |-> "", Reason |-> ""]
Verdict(code, reason) == [Code |-> code, Reason |-> reason]

\* The verdict of the moderation ignored.
moderateOutcome_IgnoreFlag(err, flg) ==
  IF err # NoErr
    THEN IF isRateLimited(err) THEN Verdict(ErrorRateLimited, "moderation_rate_limited")
         ELSE Verdict(ErrorUpstream, "moderation_error")
    ELSE Pass

\* A failure of Moderate without the status 429 taken for a pass.
moderateOutcome_SwallowError(err, flg) ==
  IF err # NoErr
    THEN IF isRateLimited(err) THEN Verdict(ErrorRateLimited, "moderation_rate_limited")
         ELSE Pass
    ELSE IF flg THEN Verdict(ErrorInvalidQuestion, "moderation_flagged")
    ELSE Pass

\* Ask, lines 126-134: the classification of what Moderate returned.
moderateOutcome(err, flg) ==
  IF err # NoErr
    THEN IF isRateLimited(err) THEN Verdict(ErrorRateLimited, "moderation_rate_limited")
         ELSE Verdict(ErrorUpstream, "moderation_error")
    ELSE IF flg THEN Verdict(ErrorInvalidQuestion, "moderation_flagged")
    ELSE Pass

\* An out-of-scope decision let through to the persist step.
chatOutcome_KeepOffTopic(err, decision) ==
  IF err # NoErr
    THEN IF isRateLimited(err) THEN Verdict(ErrorRateLimited, "openai_rate_limited")
         ELSE Verdict(ErrorUpstream, "openai_error")
    ELSE IF ~decision.ok THEN Verdict(ErrorUpstream, "openai_malformed_response")
    ELSE Pass

\* An out-of-scope decision reported as a malformed response.
chatOutcome_OffTopicAsMalformed(err, decision) ==
  IF err # NoErr
    THEN IF isRateLimited(err) THEN Verdict(ErrorRateLimited, "openai_rate_limited")
         ELSE Verdict(ErrorUpstream, "openai_error")
    ELSE IF ~decision.ok \/ ~decision.InScope
      THEN Verdict(ErrorUpstream, "openai_malformed_response")
    ELSE Pass

\* Ask, lines 150-163: the classification of what Chat returned, decision
\* being parseScopedAnswer of the returned text.
chatOutcome(err, decision) ==
  IF err # NoErr
    THEN IF isRateLimited(err) THEN Verdict(ErrorRateLimited, "openai_rate_limited")
         ELSE Verdict(ErrorUpstream, "openai_error")
    ELSE IF ~decision.ok THEN Verdict(ErrorUpstream, "openai_malformed_response")
    ELSE IF ~decision.InScope THEN Verdict(ErrorInvalidQuestion, "relevance_off_topic")
    ELSE Pass

\* The history read left out after the moderation.
AfterModerate_SkipHistory(p, err, flg) ==
  LET v == moderateOutcome(err, flg)
  IN  /\ Call(p, "Moderate", err = NoErr)
      /\ flagged' = [flagged EXCEPT ![p] =
           IF err # NoErr THEN "none" ELSE IF flg THEN "true" ELSE "false"]
      /\ IF v = Pass THEN Goto(p, "chat") ELSE Reject(p, v.Code, v.Reason, err)

\* Moderate has returned (err, flg).
AfterModerate(p, err, flg) ==
  LET v == moderateOutcome(err, flg)
  IN  /\ Call(p, "Moderate", err = NoErr)
      /\ flagged' = [flagged EXCEPT ![p] =
           IF err # NoErr THEN "none" ELSE IF flg THEN "true" ELSE "false"]
      /\ IF v = Pass THEN Goto(p, "history") ELSE Reject(p, v.Code, v.Reason, err)

\* A cache of the key that keeps a fetched key only, and fetches again after
\* a failed fetch.
KeyCached_SuccessOnly == keyDone /\ keyErr = NoErr

\* resolveAPIKey, lines 136-139: keyOnce.Do runs the fetch at the first call
\* only, whatever the fetch returned.
KeyCached == keyDone

\* Ask, line 125, with openai.Client.Moderate: the key is resolved once per
\* client (resolveAPIKey), then the moderation request is sent.
ModerateWith(p, failures) ==
  /\ pc[p] = "moderate"
  /\ keyOnce = NoProc
  /\ \E kerr \in (IF KeyCached THEN {keyErr}
                  ELSE IF Cancelled(p) THEN {Wrap(CtxErr)} ELSE {NoErr} \cup KeyFailures) :
       /\ keyDone' = TRUE
       /\ keyErr' = kerr
       /\ keyFetches' = IF KeyCached THEN keyFetches ELSE keyFetches + 1
       /\ apiKey' = IF KeyCached THEN apiKey
                    ELSE IF kerr = NoErr THEN Token(keyFetches + 1) ELSE <<>>
       /\ resolved' = [resolved EXCEPT ![p] = Resolved(apiKey', kerr)]
       /\ UNCHANGED keyOnce
       /\ IF kerr # NoErr
            THEN AfterModerate(p, kerr, FALSE)
            ELSE \/ \E err \in CallFailures(p, failures) : AfterModerate(p, err, FALSE)
                 \/ CallMaySucceed(p) /\ \E flg \in BOOLEAN : AfterModerate(p, NoErr, flg)
  /\ UNCHANGED <<waited, asks, svcVars, cancelledAt, cacheVars, tableVars, uuids, in, fetched, convID,
                 existingTurns, history, raw, parsed, answer, saved, committed, sent, httpVars>>

\* The history read whose failure is ignored.
HistoryFetch_IgnoreError(p) ==
  /\ pc[p] = "history"
  /\ \/ \E err \in StoreFailures :
          /\ Call(p, "GetHistory", FALSE)
          /\ Goto(p, "chat")
          /\ UNCHANGED history
     \/ /\ Call(p, "GetHistory", TRUE)
        /\ history' = [history EXCEPT ![p] = GetHistory(convID[p], maxContextItems)]
        /\ Goto(p, "chat")
  /\ UNCHANGED <<waited, asks, svcVars, cancelledAt, cacheVars, keyVars, tableVars, uuids, in, fetched, convID,
                 existingTurns, raw, parsed, answer, flagged, saved, committed, sent, httpVars>>

\* Ask, lines 136-139.
HistoryFetch(p) ==
  /\ pc[p] = "history"
  /\ \/ \E err \in CallFailures(p, StoreFailures) :
          /\ Call(p, "GetHistory", FALSE)
          /\ Reject(p, ErrorInternal, "dynamodb_history_error", err)
          /\ UNCHANGED history
     \/ /\ CallMaySucceed(p)
        /\ Call(p, "GetHistory", TRUE)
        /\ history' = [history EXCEPT ![p] = GetHistory(convID[p], maxContextItems)]
        /\ Goto(p, "chat")
  /\ UNCHANGED <<waited, asks, svcVars, cancelledAt, cacheVars, keyVars, tableVars, uuids, in, fetched, convID,
                 existingTurns, raw, parsed, answer, flagged, saved, committed, sent, httpVars>>

\* Chat has returned (err, text).
AfterChat(p, err, text) ==
  LET decision == IF err = NoErr THEN parseScopedAnswer(text) ELSE ParseError
      v == chatOutcome(err, decision)
  IN  /\ Call(p, "Chat", err = NoErr)
      /\ raw' = [raw EXCEPT ![p] = text]
      /\ sent' = [sent EXCEPT ![p] = buildPromptMessages(
           promptContext(pinnedPrompt, resume, interests), TrimSpace(in[p].Question),
           history[p])]
      /\ parsed' = [parsed EXCEPT ![p] = decision]
      /\ IF v = Pass
           THEN /\ answer' = [answer EXCEPT ![p] = decision.Answer]
                /\ Goto(p, "save")
           ELSE /\ Reject(p, v.Code, v.Reason, IF err # NoErr THEN err ELSE
                          IF decision.ok THEN NoErr ELSE <<PlainErr>>)
                /\ UNCHANGED answer

\* Ask, lines 141-163, with openai.Client.Chat.
ChatWith(p, failures, texts) ==
  /\ pc[p] = "chat"
  /\ IF openaiModel = <<>> THEN AfterChat(p, <<PlainErr>>, <<>>)
     ELSE IF keyErr # NoErr THEN AfterChat(p, keyErr, <<>>)
     ELSE \/ \E err \in CallFailures(p, failures) : AfterChat(p, err, <<>>)
          \/ CallMaySucceed(p) /\ \E text \in texts : AfterChat(p, NoErr, text)
  /\ resolved' = [resolved EXCEPT ![p] =
       IF openaiModel = <<>> THEN @ ELSE Resolved(apiKey, keyErr)]
  /\ UNCHANGED <<waited, asks, svcVars, cancelledAt, cacheVars, clientVars, tableVars, uuids, in, fetched, convID,
                 existingTurns, history, flagged, saved, committed, httpVars>>

\* Ask, lines 165-172, with Client.SaveCompletedTurn and Client.SaveTurn.
Persist(p) ==
  /\ pc[p] = "save"
  /\ LET question == TrimSpace(in[p].Question)
         turns == nextTurns(existingTurns[p])
     IN  /\ saved' = [saved EXCEPT ![p] = Append(@,
                        [ConversationID |-> convID[p], Question |-> question,
                         Answer |-> answer[p], Turns |-> turns])]
         /\ \E ok \in (IF CallMaySucceed(p) THEN BOOLEAN ELSE {FALSE}) :
              LET tx == TransactWriteItems(convID[p],
                          Message(question, answer[p], "complete"), turns, ok)
              IN  /\ Call(p, "SaveCompletedTurn", ok)
                  /\ msgs' = tx.msgs
                  /\ meta' = tx.meta
                  /\ committed' = [committed EXCEPT ![p] = tx.put]
                  /\ IF ok
                       THEN /\ pc' = [pc EXCEPT ![p] = "done"]
                            /\ out' = [out EXCEPT ![p] =
                                 [Answer |-> answer[p], ConversationID |-> convID[p]]]
                            /\ UNCHANGED result
                       ELSE Reject(p, ErrorInternal, "dynamodb_write_error",
                                   Wrap(Wrap(<<PlainErr>>)))
  /\ UNCHANGED <<waited, asks, svcVars, cancelledAt, cacheVars, keyVars, uuids, localVars, sent, httpVars>>

\* Ask has returned; the process is free for the next request.
Return(p) ==
  /\ pc[p] \in {"done", "rejected"}
  /\ pc' = [pc EXCEPT ![p] = "idle"]
  /\ in' = [in EXCEPT ![p] = NoInput]
  /\ convID' = [convID EXCEPT ![p] = <<>>]
  /\ existingTurns' = [existingTurns EXCEPT ![p] = 0]
  /\ history' = [history EXCEPT ![p] = <<>>]
  /\ raw' = [raw EXCEPT ![p] = <<>>]
  /\ parsed' = [parsed EXCEPT ![p] = ParseError]
  /\ answer' = [answer EXCEPT ![p] = <<>>]
  /\ flagged' = [flagged EXCEPT ![p] = "none"]
  /\ waited' = [waited EXCEPT ![p] = FALSE]
  /\ calls' = [calls EXCEPT ![p] = <<>>]
  /\ saved' = [saved EXCEPT ![p] = <<>>]
  /\ committed' = [committed EXCEPT ![p] = {}]
  /\ sent' = [sent EXCEPT ![p] = <<>>]
  /\ result' = [result EXCEPT ![p] = NoResult]
  /\ out' = [out EXCEPT ![p] = EmptyOutput]
  /\ resolved' = [resolved EXCEPT ![p] = NotResolved]
  /\ cancelledAt' = [cancelledAt EXCEPT ![p] = "none"]
  /\ UNCHANGED <<asks, svcVars, cacheVars, clientVars, tableVars, uuids, fetched, httpVars>>

\* ------------------------------------------------- concurrent invocations
\* Requests of the concurrent runs: one valid question, with and without the
\* client's conversation id; one failure and two verdicts of the model.
ConcQuestions == { <<" ", "a", " ">> }
ConcConversationIDs == { <<>>, <<" ">> \o ClientConvID }
ConcFailures == { Wrap(<<StatusErr(429)>>) }
ConcRawOutputs == { ScopedJSON(TRUE, <<"y">>), ScopedJSON(FALSE, <<>>) }
ConcSeedTurns == {0, 9, 10}

AskBegin(p) == Begin(p, ConcQuestions, ConcConversationIDs)
LoadParamConc(p) == LoadParamWith(p, {})
Moderate(p) == ModerateWith(p, ConcFailures)
Chat(p) == ChatWith(p, ConcFailures, ConcRawOutputs)

Init == Construct({0}, {2}, ConcSeedTurns)

Next ==
  \E p \in Procs :
    \/ AskBegin(p)
    \/ EnsureConfigRead(p)
    \/ EnsureConfigLock(p)
    \/ LoadParamConc(p)
    \/ TurnCheck(p)
    \/ Moderate(p)
    \/ HistoryFetch(p)
    \/ Chat(p)
    \/ Persist(p)

\* Every process serves one request; the invocations interleave in every way;
\* the parameter store answers every fetch.
Spec == Init /\ [][Next]_vars

\* ------------------------------------------------- one invocation at a time
AskBeginSeq(p) == Begin(p, Questions, ConversationIDs)
ModerateSeq(p) == ModerateWith(p, HTTPFailures)
ChatSeq(p) == ChatWith(p, HTTPFailures, RawOutputs)

InitSeq == Construct(ConfiguredMaxQuestionLen, ConfiguredMaxContextItems, SeedTurns)

NextSeq ==
  \E p \in {1} :
    \/ AskBeginSeq(p)
    \/ EnsureConfigRead(p)
    \/ EnsureConfigLock(p)
    \/ LoadParam(p)
    \/ TurnCheck(p)
    \/ ModerateSeq(p)
    \/ HistoryFetch(p)
    \/ ChatSeq(p)
    \/ Persist(p)
    \/ Return(p)

\* One process serves the requests one after the other, with every input and
\* every outcome.
SpecSeq == InitSeq /\ [][NextSeq]_vars

\* ------------------------------------------- concurrent configuration loads
\* Requests of the runs around the cache: one valid question without a
\* conversation id, answered in scope; the parameter store may fail any fetch.
CacheQuestions == { <<"a", "a">> }
CacheConversationIDs == { <<>> }
CacheRawOutputs == { ScopedJSON(TRUE, <<"y">>) }

AskBeginCache(p) == Begin(p, CacheQuestions, CacheConversationIDs)
ModerateCache(p) == ModerateWith(p, {})
ChatCache(p) == ChatWith(p, {}, CacheRawOutputs)

InitCache == Construct({0}, {2}, {0})

NextCache ==
  \E p \in Procs :
    \/ AskBeginCache(p)
    \/ EnsureConfigRead(p)
    \/ EnsureConfigLock(p)
    \/ LoadParam(p)
    \/ TurnCheck(p)
    \/ ModerateCache(p)
    \/ HistoryFetch(p)
    \/ ChatCache(p)
    \/ Persist(p)
    \/ Return(p)

\* The processes serve the requests concurrently, each one after the other.
SpecCache == InitCache /\ [][NextCache]_vars

\* ------------------------------------------------ progress of an invocation
\* Concurrent requests on the client's conversation, one turn below the
\* limit, with the upstream calls answering.
LiveConversationIDs == { <<" ">> \o ClientConvID }

AskBeginLive(p) == Begin(p, ConcQuestions, LiveConversationIDs)
ChatLive(p) == ChatWith(p, {}, ConcRawOutputs)

InitLive == Construct({0}, {2}, {9})

\* The steps of a started invocation.
Step(p) ==
  \/ EnsureConfigRead(p)
  \/ EnsureConfigLock(p)
  \/ LoadParamConc(p)
  \/ TurnCheck(p)
  \/ ModerateCache(p)
  \/ HistoryFetch(p)
  \/ ChatLive(p)
  \/ Persist(p)

NextLive == \E p \in Procs : AskBeginLive(p) \/ Step(p)

\* A started invocation keeps running: the scheduler runs every goroutine,
\* every collaborator call returns, and the mutex is handed to each waiter.
SpecLive == InitLive /\ [][NextLive]_vars /\ \A p \in Procs : WF_vars(Step(p))

\* ------------------------------------------------ texts of the model's reply
\* One request whose reply is any text of up to two JSON values: an object of
\* at most MaxMembers members, null, another value or text that is no JSON,
\* after nothing or white space and before nothing, white space, a second
\* value or text that is no JSON.
MemberKeys == {"in_scope", "answer", "extra"}

\* Answers of a reply: none, white space only, a letter, a padded letter.
Answers == { <<>>, <<" ">>, <<"y">>, <<" ", "y">> }

MemberValues == {JBool(TRUE), JBool(FALSE), JNull} \cup {JString(a) : a \in Answers}

Members == {Member(k, v) : k \in MemberKeys, v \in MemberValues}

Objects == UNION { {JObject(ms) : ms \in [1..n -> Members]} : n \in 0..MaxMembers }

ParseLeads == { <<>>, <<JSpace>> }

ParseTails ==
  { <<>>, <<JSpace>>, <<JObject(<<>>)>>, <<JNullItem>>, <<JSpace, JOtherItem>>, <<JJunk>> }

\* The values a reply can encode, and the encoding of one with one more
\* member put before the member at place i.
ScopedValues == {ScopedAnswer(b, a) : b \in BOOLEAN, a \in Answers}

WithMember(v, m, i) ==
  LET ms == ScopedJSON(v.InScope, v.Answer)[1].members
  IN  << JObject(SubSeq(ms, 1, i - 1) \o <<m>> \o SubSeq(ms, i, Len(ms))) >>

UnknownMembers == {Member("extra", v) : v \in MemberValues}

ParseTexts ==
  { <<>>, <<JSpace>> }
    \cup { lead \o <<v>> \o tail :
             lead \in ParseLeads,
             v \in Objects \cup {JNullItem, JOtherItem, JJunk},
             tail \in ParseTails }
    \cup { WithMember(v, m, i) : v \in ScopedValues, m \in UnknownMembers, i \in 1..3 }

AskBeginParse(p) == Begin(p, CacheQuestions, CacheConversationIDs)
ChatParse(p) == ChatWith(p, {}, ParseTexts)

InitParse == Construct({0}, {2}, {0})

NextParse ==
  \E p \in {1} :
    \/ AskBeginParse(p)
    \/ EnsureConfigRead(p)
    \/ EnsureConfigLock(p)
    \/ LoadParamConc(p)
    \/ TurnCheck(p)
    \/ ModerateCache(p)
    \/ HistoryFetch(p)
    \/ ChatParse(p)
    \/ Persist(p)

\* One request, with every text as the reply of the model.
SpecParse == InitParse /\ [][NextParse]_vars

\* --------------------------------------------------- records of the history
\* One request on the client's conversation, whose table holds up to
\* MaxRecords records: complete turns (one with white space around its text
\* and answer), a turn without status, a pending turn, and complete turns
\* with an empty or blank answer or text.  The limit of the history read is
\* the default or two.
HistoryRecords ==
  { Message(<<"a">>, <<"x">>, statusComplete),
    Message(<<" ", "b">>, <<"y", " ">>, statusComplete),
    Message(<<"a">>, <<"x">>, ""),
    Message(<<"a">>, <<"x">>, "pending"),
    Message(<<"a">>, <<>>, statusComplete),
    Message(<<"a">>, <<" ">>, statusComplete),
    Message(<<>>, <<"x">>, statusComplete),
    Message(<<" ">>, <<"x">>, statusComplete) }

Histories == UNION { [1..n -> HistoryRecords] : n \in 0..MaxRecords }

AskBeginPrompt(p) == Begin(p, ConcQuestions, LiveConversationIDs)

InitPrompt == ConstructWith({0}, ConfiguredMaxContextItems, Histories)

NextPrompt ==
  \E p \in {1} :
    \/ AskBeginPrompt(p)
    \/ EnsureConfigRead(p)
    \/ EnsureConfigLock(p)
    \/ LoadParamConc(p)
    \/ TurnCheck(p)
    \/ ModerateCache(p)
    \/ HistoryFetch(p)
    \/ ChatLive(p)
    \/ Persist(p)

\* One request, with every history in the table.
SpecPrompt == InitPrompt /\ [][NextPrompt]_vars

\* ------------------------------------------------------------- the handler
\* rejectResponse: the body is errorResponse{Error: errorCode}; the reason is
\* logged only.
rejectResponse(statusCode, errorCode, reason) == Response(statusCode, [error |-> errorCode])

\* The unknown kind handed through to the client.
rejectForUseCaseError_EchoCode(err) ==
  IF err.Code = "" THEN rejectResponse(500, ErrorInternal, "unexpected_error")
  ELSE CASE err.Code = ErrorInvalidInput -> rejectResponse(400, err.Code, err.Reason)
         [] err.Code = ErrorInvalidQuestion -> rejectResponse(400, err.Code, err.Reason)
         [] err.Code = ErrorRateLimited -> rejectResponse(429, err.Code, err.Reason)
         [] err.Code = ErrorUpstream -> rejectResponse(502, err.Code, err.Reason)
         [] OTHER -> rejectResponse(500, err.Code, err.Reason)

\* rejectForUseCaseError: errors.As finds a *usecase.Error (Code is set) or
\* not.
rejectForUseCaseError(err) ==
  IF err.Code = "" THEN rejectResponse(500, ErrorInternal, "unexpected_error")
  ELSE CASE err.Code = ErrorInvalidInput -> rejectResponse(400, err.Code, err.Reason)
         [] err.Code = ErrorInvalidQuestion -> rejectResponse(400, err.Code, err.Reason)
         [] err.Code = ErrorRateLimited -> rejectResponse(429, err.Code, err.Reason)
         [] err.Code = ErrorUpstream -> rejectResponse(502, err.Code, err.Reason)
         [] OTHER -> rejectResponse(500, ErrorInternal, err.Reason)

\* Handle, lines 68-88: the body is decoded; a body that does not decode is
\* answered at once, otherwise Ask is invoked with the decoded request.
HandleBegin(p, bodies) ==
  /\ pc[p] = "idle"
  /\ asks < MaxAsks
  /\ \E body \in bodies :
       /\ event' = [event EXCEPT ![p] = body]
       /\ IF Unmarshals(body)
            THEN /\ Invoke(p, body.Question, body.ConversationID)
                 /\ UNCHANGED response
            ELSE /\ response' = [response EXCEPT ![p] =
                      rejectResponse(400, ErrorInvalidInput, "invalid_body")]
                 /\ pc' = [pc EXCEPT ![p] = "responded"]
                 /\ UNCHANGED <<svcVars, cancelledAt, cacheVars, keyVars, tableVars, uuids, asks,
                                localVars, waited, traceVars>>

\* Handle with another implementation of AskUseCase, which returns at once
\* one of the results.
HandleStub(p, bodies, results) ==
  /\ pc[p] = "idle"
  /\ asks < MaxAsks
  /\ asks' = asks + 1
  /\ \E body \in bodies, r \in results :
       /\ Unmarshals(body)
       /\ event' = [event EXCEPT ![p] = body]
       /\ in' = [in EXCEPT ![p] =
             [Question |-> body.Question, ConversationID |-> body.ConversationID]]
       /\ result' = [result EXCEPT ![p] = r.err]
       /\ out' = [out EXCEPT ![p] = r.out]
       /\ pc' = [pc EXCEPT ![p] = IF r.err = NoResult THEN "done" ELSE "rejected"]
  /\ UNCHANGED <<svcVars, cancelledAt, cacheVars, keyVars, tableVars, uuids, fetched, convID,
                 existingTurns, history, raw, parsed, answer, flagged, waited, calls, saved,
                 committed, sent, response>>

\* Handle, lines 89-100: Ask has returned.
Respond(p) ==
  /\ pc[p] \in {"done", "rejected"}
  /\ pc' = [pc EXCEPT ![p] = "responded"]
  /\ response' = [response EXCEPT ![p] =
       IF result[p] # NoResult THEN rejectForUseCaseError(result[p])
       ELSE Response(200, [answer |-> out[p].Answer,
                            conversationId |-> out[p].ConversationID])]
  /\ UNCHANGED <<svcVars, cancelledAt, cacheVars, keyVars, tableVars, uuids, asks, localVars, waited,
                 traceVars, event>>

\* Handle has returned; the process is free for the next event.
HandleReturn(p) ==
  /\ pc[p] = "responded"
  /\ pc' = [pc EXCEPT ![p] = "idle"]
  /\ in' = [in EXCEPT ![p] = NoInput]
  /\ convID' = [convID EXCEPT ![p] = <<>>]
  /\ existingTurns' = [existingTurns EXCEPT ![p] = 0]
  /\ history' = [history EXCEPT ![p] = <<>>]
  /\ raw' = [raw EXCEPT ![p] = <<>>]
  /\ parsed' = [parsed EXCEPT ![p] = ParseError]
  /\ answer' = [answer EXCEPT ![p] = <<>>]
  /\ flagged' = [flagged EXCEPT ![p] = "none"]
  /\ waited' = [waited EXCEPT ![p] = FALSE]
  /\ calls' = [calls EXCEPT ![p] = <<>>]
  /\ saved' = [saved EXCEPT ![p] = <<>>]
  /\ committed' = [committed EXCEPT ![p] = {}]
  /\ sent' = [sent EXCEPT ![p] = <<>>]
  /\ result' = [result EXCEPT ![p] = NoResult]
  /\ out' = [out EXCEPT ![p] = EmptyOutput]
  /\ event' = [event EXCEPT ![p] = NoEvent]
  /\ response' = [response EXCEPT ![p] = NoResponse]
  /\ resolved' = [resolved EXCEPT ![p] = NotResolved]
  /\ cancelledAt' = [cancelledAt EXCEPT ![p] = "none"]
  /\ UNCHANGED <<asks, svcVars, cacheVars, clientVars, tableVars, uuids, fetched>>

\* ------------------------------------------------- calls of the OpenAI client
\* Goroutines call Client.Moderate and Client.Chat directly, in any number up
\* to MaxCalls and interleaved in every way; the parameter store may fail the
\* fetch of the key and the endpoint may fail any request.
MaxCalls == 3

ClientOps == { "Moderate", "Chat" }

\* Positions inside a call of op: before keyOnce.Do, inside its function,
\* after resolveAPIKey has returned, and after the call has returned.
KeyPc(op, at) == op \o "." \o at

\* Moderate or Chat is called: lines 166-171 and 242-243.
ClientBegin(p) ==
  /\ pc[p] = "idle"
  /\ asks < MaxCalls
  /\ asks' = asks + 1
  /\ \E op \in ClientOps : pc' = [pc EXCEPT ![p] = KeyPc(op, "key")]
  /\ UNCHANGED <<svcVars, cancelledAt, cacheVars, keyVars, tableVars, uuids, localVars, waited, traceVars,
                 httpVars>>

\* keyOnce.Do entered without its mutex: every caller that finds the function
\* not yet run runs it.
OnceDo_NoLock(p, op) ==
  /\ pc[p] = KeyPc(op, "key")
  /\ IF keyDone
       THEN /\ resolved' = [resolved EXCEPT ![p] = Resolved(apiKey, keyErr)]
            /\ pc' = [pc EXCEPT ![p] = KeyPc(op, "send")]
            /\ UNCHANGED keyOnce
       ELSE /\ keyOnce' = p
            /\ pc' = [pc EXCEPT ![p] = KeyPc(op, "fetch")]
            /\ UNCHANGED resolved
  /\ UNCHANGED <<svcVars, cancelledAt, cacheVars, keyDone, keyErr, apiKey, keyFetches, tableVars, uuids,
                 asks, localVars, waited, traceVars, httpVars>>

\* resolveAPIKey, lines 135-139: keyOnce.Do returns at once when the function
\* has run, runs it when no caller is running it, and otherwise blocks until
\* the caller that runs it is done.
OnceDo(p, op) ==
  /\ pc[p] = KeyPc(op, "key")
  /\ keyDone \/ keyOnce = NoProc
  /\ IF keyDone
       THEN /\ resolved' = [resolved EXCEPT ![p] = Resolved(apiKey, keyErr)]
            /\ pc' = [pc EXCEPT ![p] = KeyPc(op, "send")]
            /\ UNCHANGED keyOnce
       ELSE /\ keyOnce' = p
            /\ pc' = [pc EXCEPT ![p] = KeyPc(op, "fetch")]
            /\ UNCHANGED resolved
  /\ UNCHANGED <<svcVars, cancelledAt, cacheVars, keyDone, keyErr, apiKey, keyFetches, tableVars, uuids,
                 asks, localVars, waited, traceVars, httpVars>>

\* The function of keyOnce, line 137, with fetchAPIKeyFromParamStore: the key
\* and the error are stored, the Once is marked done and released.
FetchKey(p, op) ==
  /\ pc[p] = KeyPc(op, "fetch")
  /\ \E kerr \in {NoErr} \cup KeyFailures :
       /\ keyFetches' = keyFetches + 1
       /\ keyErr' = kerr
       /\ apiKey' = IF kerr = NoErr THEN Token(keyFetches + 1) ELSE <<>>
       /\ resolved' = [resolved EXCEPT ![p] = Resolved(apiKey', kerr)]
  /\ keyDone' = TRUE
  /\ keyOnce' = NoProc
  /\ pc' = [pc EXCEPT ![p] = KeyPc(op, "send")]
  /\ UNCHANGED <<svcVars, cancelledAt, cacheVars, tableVars, uuids, asks, localVars, waited, traceVars,
                 httpVars>>

\* Lines 172-174 and 244-246, and the request that follows: the call returns
\* the error of resolveAPIKey, or sends the request with the key.
ClientSend(p, op) ==
  /\ pc[p] = KeyPc(op, "send")
  /\ IF resolved[p].keyErr # NoErr
       THEN Call(p, op, FALSE)
       ELSE \E ok \in BOOLEAN : Call(p, op, ok)
  /\ pc' = [pc EXCEPT ![p] = KeyPc(op, "returned")]
  /\ UNCHANGED <<svcVars, cancelledAt, cacheVars, keyVars, tableVars, uuids, asks, localVars, waited,
                 saved, committed, sent, result, out, httpVars>>

\* The goroutine is free for its next call.
ClientReturn(p, op) ==
  /\ pc[p] = KeyPc(op, "returned")
  /\ pc' = [pc EXCEPT ![p] = "idle"]
  /\ calls' = [calls EXCEPT ![p] = <<>>]
  /\ resolved' = [resolved EXCEPT ![p] = NotResolved]
  /\ UNCHANGED <<svcVars, cancelledAt, cacheVars, clientVars, tableVars, uuids, asks, localVars, waited,
                 saved, committed, sent, result, out, httpVars>>

InitKey == Construct({0}, {2}, {0})

NextKey ==
  \E p \in Procs :
    \/ ClientBegin(p)
    \/ \E op \in ClientOps :
         \/ OnceDo(p, op)
         \/ FetchKey(p, op)
         \/ ClientSend(p, op)
         \/ ClientReturn(p, op)

SpecKey == InitKey /\ [][NextKey]_vars

\* ------------------------------------------------------------ cancellation
\* The caller's ctx is done (cancelled, or its deadline passed) while the
\* invocation is running; Ask itself never looks at the ctx, it hands it to
\* every collaborator call. "wait" is the invocation blocked in cacheMu.Lock
\* while another one holds the lock.
Cancel(p) ==
  /\ pc[p] \notin {"idle", "done", "rejected", "responded"}
  /\ ~Cancelled(p)
  /\ cancelledAt' = [cancelledAt EXCEPT ![p] =
       IF pc[p] = "lock" /\ cacheMu # NoProc THEN "wait" ELSE pc[p]]
  /\ UNCHANGED <<svcVars, cacheVars, keyVars, tableVars, uuids, asks, pc, localVars, waited,
                 traceVars, httpVars>>

\* Requests of the runs with cancellation: one valid question with the
\* client's conversation id, answered in scope; the parameter store and the
\* model's endpoints fail only when the ctx is done.
AskBeginCancel(p) == Begin(p, ConcQuestions, { ClientConvID })
ModerateCancel(p) == ModerateWith(p, {})
ChatCancel(p) == ChatWith(p, {}, { ScopedJSON(TRUE, <<"y">>) })

InitCancel == Construct({0}, {2}, {0, 9})

NextCancel ==
  \E p \in Procs :
    \/ AskBeginCancel(p)
    \/ Cancel(p)
    \/ EnsureConfigRead(p)
    \/ EnsureConfigLock(p)
    \/ LoadParamConc(p)
    \/ TurnCheck(p)
    \/ ModerateCancel(p)
    \/ HistoryFetch(p)
    \/ ChatCancel(p)
    \/ Persist(p)

\* Every process serves one request, the invocations interleave in every
\* way, and the ctx of each may be done at any point.
SpecCancel == InitCancel /\ [][NextCancel]_vars

\* ------------------------------------------- overlapping and repeated requests
\* The processes serve up to MaxRequests requests on the client's
\* conversation, one valid question answered in scope, concurrently and one
\* after the other; the configuration fetches and the requests to the
\* model's endpoints do not fail.
MaxRequests == 3

AskBeginTurns(p) ==
  /\ pc[p] = "idle"
  /\ asks < MaxRequests
  /\ Invoke(p, <<"a">>, ClientConvID)
  /\ UNCHANGED httpVars

ModerateTurns(p) == ModerateWith(p, {})
ChatTurns(p) == ChatWith(p, {}, { ScopedJSON(TRUE, <<"y">>) })

InitTurns == Construct({0}, {2}, {0})

NextTurns ==
  \E p \in Procs :
    \/ AskBeginTurns(p)
    \/ EnsureConfigRead(p)
    \/ EnsureConfigLock(p)
    \/ LoadParamConc(p)
    \/ TurnCheck(p)
    \/ ModerateTurns(p)
    \/ HistoryFetch(p)
    \/ ChatTurns(p)
    \/ Persist(p)
    \/ Return(p)

SpecTurns == InitTurns /\ [][NextTurns]_vars

\* ---------------------------------------------------- requests by HTTP
\* Bodies a client posts, and results of a use case other than AskService:
\* an output, an error of each kind, of a kind the handler does not know,
\* and an error that is no *usecase.Error.
Bodies ==
  { EventBody(k, <<>>, <<>>) : k \in {"empty", "junk", "mistyped", "null"} }
    \cup { EventBody("object", q, cid) : q \in Questions, cid \in ConversationIDs }

StubResults ==
  { [out |-> [Answer |-> <<"y">>, ConversationID |-> ClientConvID], err |-> NoResult] }
    \cup { [out |-> EmptyOutput, err |-> newError(code, "reason", NoErr)] :
             code \in {ErrorInvalidInput, ErrorInvalidQuestion, ErrorRateLimited,
                       ErrorUpstream, ErrorInternal, "TEAPOT"} }
    \cup { [out |-> EmptyOutput, err |-> Unclassified(<<PlainErr>>)] }

HandleAsk(p) == HandleBegin(p, Bodies)
HandleAny(p) == HandleStub(p, Bodies, StubResults)

InitHandle == Construct(ConfiguredMaxQuestionLen, {2}, {0, 10})

NextHandle ==
  \E p \in {1} :
    \/ HandleAsk(p)
    \/ HandleAny(p)
    \/ EnsureConfigRead(p)
    \/ EnsureConfigLock(p)
    \/ LoadParam(p)
    \/ TurnCheck(p)
    \/ ModerateSeq(p)
    \/ HistoryFetch(p)
    \/ ChatSeq(p)
    \/ Persist(p)
    \/ Respond(p)
    \/ HandleReturn(p)

\* One process serves the events one after the other, with every body and
\* every outcome.
SpecHandle == InitHandle /\ [][NextHandle]_vars

\* ================================================================ claims
Ops(p) == [i \in 1..Len(calls[p]) |-> calls[p][i].op]
Called(p, op) == \E i \in 1..Len(calls[p]) : calls[p][i].op = op
CalledOK(p, op) == \E i \in 1..Len(calls[p]) : calls[p][i].op = op /\ calls[p][i].ok
Times(p, op) == Cardinality({i \in 1..Len(calls[p]) : calls[p][i].op = op})
Returned(p, code, reason) ==
  pc[p] = "rejected" /\ result[p].Code = code /\ result[p].Reason = reason
PersistedTurns(c) == IF meta[c].exists THEN meta[c].turns ELSE 0
Blank(q) == \A i \in 1..Len(q) : q[i] = " "

\* C1: when the turn count an invocation reads for a client-supplied
\* conversation id is 10 or more, Ask returns InvalidInput /
\* conversation_turn_limit, and that invocation calls neither Moderate nor
\* GetHistory nor Chat nor SaveCompletedTurn.
C1_TurnLimitRejects ==
  /\ [][\A p \in Procs :
          ( /\ pc[p] = "turnCheck"
            /\ pc'[p] # "turnCheck"
            /\ ~Blank(in[p].ConversationID)
            /\ CalledOK(p, "GetConversationTurnCount")'
            /\ PersistedTurns(TrimSpace(in[p].ConversationID)) >= 10 )
          => Returned(p, ErrorInvalidInput, "conversation_turn_limit")']_vars
  /\ [](\A p \in Procs :
          result[p].Reason = "conversation_turn_limit"
          => /\ pc[p] = "rejected"
             /\ ~Called(p, "Moderate") /\ ~Called(p, "GetHistory")
             /\ ~Called(p, "Chat") /\ ~Called(p, "SaveCompletedTurn"))

C1_Witness ==
  \E p \in Procs :
    /\ Returned(p, ErrorInvalidInput, "conversation_turn_limit")
    /\ CalledOK(p, "GetConversationTurnCount")
    /\ PersistedTurns(convID[p]) >= 10

\* C2: SaveCompletedTurn is called only after Moderate returned not flagged,
\* GetHistory succeeded and Chat succeeded with a text that parses as in scope
\* with a non-empty answer; an invocation whose Chat call fails, or returns
\* malformed or out-of-scope output, writes nothing, and the table changes
\* only in the persist step of some invocation.
C2_PersistOnlyAfterSuccess ==
  /\ [](\A p \in Procs :
          /\ Called(p, "SaveCompletedTurn")
             => /\ \E i \in 1..Len(calls[p]) :
                     /\ i + 3 = Len(calls[p])
                     /\ calls[p][i] = [op |-> "Moderate", ok |-> TRUE]
                     /\ calls[p][i + 1] = [op |-> "GetHistory", ok |-> TRUE]
                     /\ calls[p][i + 2] = [op |-> "Chat", ok |-> TRUE]
                     /\ calls[p][i + 3].op = "SaveCompletedTurn"
                /\ flagged[p] = "false"
                /\ parseScopedAnswer(raw[p]).ok
                /\ parseScopedAnswer(raw[p]).InScope
                /\ ~Blank(parseScopedAnswer(raw[p]).Answer)
          /\ result[p].Reason \in {"openai_error", "openai_rate_limited",
                                   "openai_malformed_response", "relevance_off_topic"}
             => ~Called(p, "SaveCompletedTurn") /\ committed[p] = {})
  /\ [][(msgs' # msgs \/ meta' # meta)
          => \E p \in Procs : pc[p] = "save" /\ pc'[p] = "done"]_vars

C2_Witness ==
  \E p \in Procs :
    /\ pc[p] = "done"
    /\ committed[p] = {"message", "meta"}
    /\ Len(msgs[convID[p]]) > 0

\* C3: SaveCompletedTurn writes the message (status complete, with question
\* and answer) and the metadata as one transaction: each invocation has put
\* both items or none, none when the write failed, and a conversation of the
\* table has a metadata item exactly when it has a message item.
C3_AtomicDualWrite ==
  /\ \A p \in Procs :
       /\ committed[p] \in { {}, {"message", "meta"} }
       /\ result[p].Reason = "dynamodb_write_error" => committed[p] = {}
       /\ pc[p] = "done" => committed[p] = {"message", "meta"}
  /\ \A c \in ConvKeys :
       /\ meta[c].exists <=> msgs[c] # <<>>
       /\ \A i \in 1..Len(msgs[c]) :
            /\ msgs[c][i].Status = "complete"
            /\ msgs[c][i].Text # <<>>
            /\ msgs[c][i].Answer # <<>>

C3_Witness ==
  \E p, q \in Procs :
    /\ Returned(p, ErrorInternal, "dynamodb_write_error")
    /\ pc[q] = "done"
    /\ msgs[convID[p]] = <<>>
    /\ msgs[convID[q]] # <<>>

\* C4: in every reachable state the persisted turns of a conversation equals
\* the number of message records persisted for it.
C4_TurnsEqualRecords ==
  \A c \in ConvKeys : PersistedTurns(c) = Len(msgs[c])

\* C5: no conversation ever holds more than 10 persisted message records, and
\* no request succeeds on a conversation that already held 10.
C5_AtMostTenTurns ==
  /\ \A c \in ConvKeys : Len(msgs[c]) <= 10
  /\ \A p \in Procs : pc[p] = "done" => Len(msgs[convID[p]]) <= 10

\* C6: a successful Ask calls SaveCompletedTurn exactly once, with the
\* resolved conversation id, the trimmed question, the parsed answer and
\* turns = (the count read at the turn check, 0 without a supplied id) + 1,
\* whatever the number of history records loaded.
C6_SaveArguments ==
  /\ [](\A p \in Procs :
          pc[p] = "done"
          => /\ Times(p, "SaveCompletedTurn") = 1
             /\ Len(saved[p]) = 1
             /\ saved[p][1].ConversationID =
                  (IF Blank(in[p].ConversationID) THEN convID[p]
                   ELSE TrimSpace(in[p].ConversationID))
             /\ saved[p][1].ConversationID # <<>>
             /\ saved[p][1].Question = TrimSpace(in[p].Question)
             /\ saved[p][1].Answer = parseScopedAnswer(raw[p]).Answer
             /\ saved[p][1].Turns =
                  (IF Blank(in[p].ConversationID) THEN 0 ELSE existingTurns[p]) + 1)
  /\ [][\A p \in Procs :
          (pc[p] = "turnCheck" /\ pc'[p] = "moderate")
          => existingTurns'[p] =
               (IF Blank(in[p].ConversationID) THEN 0
                ELSE PersistedTurns(TrimSpace(in[p].ConversationID)))]_vars

C6_Witness ==
  \E p \in Procs :
    /\ pc[p] = "done"
    /\ ~Blank(in[p].ConversationID)
    /\ saved[p][1].Turns = 10
    /\ Len(history[p]) = 2

\* C7: a question that is empty or all white space is rejected with
\* InvalidInput / empty_question and the invocation makes no collaborator
\* call, whatever the state of the cache, the key and the table.
C7_EmptyQuestion ==
  \A p \in Procs :
    (pc[p] # "idle" /\ Blank(in[p].Question))
    => /\ Returned(p, ErrorInvalidInput, "empty_question")
       /\ calls[p] = <<>>

C7_Witness ==
  \E p \in Procs :
    /\ Returned(p, ErrorInvalidInput, "empty_question")
    /\ in[p].Question = <<" ">>
    /\ cacheLoaded
    /\ keyDone

\* C8: a trimmed question with more characters than the configured maximum
\* is rejected with InvalidInput / question_too_long before any collaborator
\* call, one with exactly the maximum number of characters passes the
\* validation, and a non-positive configured maximum is replaced by 300.
C8_QuestionLengthLimit ==
  /\ maxQuestionLenIn <= 0 => maxQuestionLen = 300
  /\ maxQuestionLenIn > 0 => maxQuestionLen = maxQuestionLenIn
  /\ \A p \in Procs :
       (pc[p] # "idle" /\ ~Blank(in[p].Question))
       => /\ RuneCount(TrimSpace(in[p].Question)) > maxQuestionLen
             => Returned(p, ErrorInvalidInput, "question_too_long") /\ calls[p] = <<>>
          /\ RuneCount(TrimSpace(in[p].Question)) = maxQuestionLen
             => result[p].Reason # "question_too_long"

Carries429(err) == \E i \in 1..Len(err) : err[i].coder /\ err[i].code = 429

\* C9: a failure of Moderate or of Chat that carries HTTP status 429, bare or
\* wrapped, is classified RateLimited (moderation_rate_limited,
\* openai_rate_limited); every other failure of the call is classified
\* Upstream (moderation_error, openai_error); the failed call is the last
\* call of the invocation.
C9_UpstreamClassification ==
  \A p \in Procs :
    \A i \in 1..Len(calls[p]) :
      (calls[p][i].op \in {"Moderate", "Chat"} /\ ~calls[p][i].ok)
      => /\ i = Len(calls[p])
         /\ pc[p] = "rejected"
         /\ result[p].Err # NoErr
         /\ result[p].Code =
              (IF Carries429(result[p].Err) THEN ErrorRateLimited ELSE ErrorUpstream)
         /\ result[p].Reason =
              (IF calls[p][i].op = "Moderate"
                 THEN (IF Carries429(result[p].Err) THEN "moderation_rate_limited"
                       ELSE "moderation_error")
                 ELSE (IF Carries429(result[p].Err) THEN "openai_rate_limited"
                       ELSE "openai_error"))

C9_Witness ==
  \E p \in Procs :
    /\ Returned(p, ErrorRateLimited, "openai_rate_limited")
    /\ result[p].Err = Wrap(<<StatusErr(429)>>)
    /\ calls[p][Len(calls[p])] = [op |-> "Chat", ok |-> FALSE]

\* C10: when Moderate returns a flagged verdict, Ask returns
\* InvalidQuestion / moderation_flagged and calls neither GetHistory nor Chat
\* nor SaveCompletedTurn.
C10_ModerationFlagged ==
  \A p \in Procs :
    flagged[p] = "true"
    => /\ Returned(p, ErrorInvalidQuestion, "moderation_flagged")
       /\ ~Called(p, "GetHistory")
       /\ ~Called(p, "Chat")
       /\ ~Called(p, "SaveCompletedTurn")

C10_Witness ==
  \E p \in Procs :
    /\ flagged[p] = "true"
    /\ CalledOK(p, "Moderate")
    /\ pc[p] = "rejected"

\* The first value of the text does not decode into the structured output,
\* or something other than white space follows it.
DecodeFails(text) ==
  \/ ~DecodeScoped(TrimSpaceItems(text)).ok
  \/ ~AtEOF(TrimSpaceItems(text))

\* C11: when the text Chat returned fails the strict decoding, or decodes as
\* in scope with an empty or all-white-space answer, Ask returns Upstream /
\* openai_malformed_response and persists nothing.
C11_MalformedResponse ==
  \A p \in Procs :
    ( /\ CalledOK(p, "Chat")
      /\ \/ DecodeFails(raw[p])
         \/ /\ DecodeScoped(TrimSpaceItems(raw[p])).InScope
            /\ Blank(DecodeScoped(TrimSpaceItems(raw[p])).Answer) )
    => /\ Returned(p, ErrorUpstream, "openai_malformed_response")
       /\ ~Called(p, "SaveCompletedTurn")
       /\ saved[p] = <<>>
       /\ committed[p] = {}

C11_Witness ==
  \E p \in Procs :
    /\ Returned(p, ErrorUpstream, "openai_malformed_response")
    /\ CalledOK(p, "Chat")
    /\ raw[p] = ScopedJSON(TRUE, <<" ">>)

\* C12: when the text Chat returned decodes as a valid structured output that
\* is out of scope, with or without an answer, Ask returns InvalidQuestion /
\* relevance_off_topic and does not call SaveCompletedTurn.
C12_OffTopic ==
  \A p \in Procs :
    ( /\ CalledOK(p, "Chat")
      /\ ~DecodeFails(raw[p])
      /\ ~DecodeScoped(TrimSpaceItems(raw[p])).InScope )
    => /\ Returned(p, ErrorInvalidQuestion, "relevance_off_topic")
       /\ ~Called(p, "SaveCompletedTurn")
       /\ committed[p] = {}

C12_Witness ==
  \E p \in Procs :
    /\ Returned(p, ErrorInvalidQuestion, "relevance_off_topic")
    /\ CalledOK(p, "Chat")
    /\ raw[p] = ScopedJSON(FALSE, <<"y">>)

\* The local collaborators and the reason Ask gives for a failure of each.
LocalCalls == {"GetParameter", "GetConversationTurnCount", "GetHistory", "SaveCompletedTurn"}

ReasonInCode(op) ==
  CASE op = "GetParameter" -> "ssm_load_error"
    [] op = "GetConversationTurnCount" -> "dynamodb_turn_count_error"
    [] op = "GetHistory" -> "dynamodb_history_error"
    [] op = "SaveCompletedTurn" -> "dynamodb_write_error"

\* The failed local call i of p ends the invocation as Internal.
EndsAsInternal(p, i) ==
  /\ i = Len(calls[p])
  /\ pc[p] = "rejected"
  /\ result[p].Code = ErrorInternal

\* C13 (amended): a failure of the configuration load, the turn-count read,
\* the history read or the persist step is classified Internal with reason
\* ssm_load_error, dynamodb_turn_count_error, dynamodb_history_error or
\* dynamodb_write_error, and the failed call is the last step of the invocation.
C13_LocalFailures ==
  \A p \in Procs :
    \A i \in 1..Len(calls[p]) :
      (calls[p][i].op \in LocalCalls /\ ~calls[p][i].ok)
      => /\ EndsAsInternal(p, i)
         /\ result[p].Reason = ReasonInCode(calls[p][i].op)

\* C13 (as stated): the same with the reasons config_load_error,
\* turn_count_error, history_error and persist_error.
C13_LocalFailures_Stated ==
  LET stated == [op \in LocalCalls |->
                   CASE op = "GetParameter" -> "config_load_error"
                     [] op = "GetConversationTurnCount" -> "turn_count_error"
                     [] op = "GetHistory" -> "history_error"
                     [] op = "SaveCompletedTurn" -> "persist_error"]
  IN  \A p \in Procs :
        \A i \in 1..Len(calls[p]) :
          (calls[p][i].op \in LocalCalls /\ ~calls[p][i].ok)
          => /\ EndsAsInternal(p, i)
             /\ result[p].Reason = stated[calls[p][i].op]

C13_Witness ==
  \E p \in Procs :
    /\ Returned(p, ErrorInternal, "dynamodb_history_error")
    /\ calls[p][Len(calls[p])] = [op |-> "GetHistory", ok |-> FALSE]

\* This step appends a call of op to the trace of p.
NewCall(p, op) ==
  /\ Len(calls'[p]) = Len(calls[p]) + 1
  /\ calls'[p][Len(calls'[p])].op = op

\* This step is a failed call of op by p.
FailedCall(p, op) == NewCall(p, op) /\ ~calls'[p][Len(calls'[p])].ok

CacheValues == <<resume, interests, pinnedPrompt, openaiModel>>

\* C14: the configuration is loaded once per service: the cache, once
\* loaded, stays loaded, so at most one load succeeds; the successful load
\* has fetched exactly resume, interests, pinned_prompt and
\* config/openai_model, in four GetParameter calls; once the cache is loaded
\* no load starts and no invocation calls GetParameter.
C14_LoadedOnce ==
  /\ [][cacheLoaded
          => /\ cacheLoaded'
             /\ loads' = loads
             /\ \A p \in Procs : ~NewCall(p, "GetParameter")]_vars
  /\ [][(~cacheLoaded /\ cacheLoaded')
          => \E p \in Procs :
               /\ pc[p] = "load"
               /\ calls'[p] = [i \in 1..4 |-> [op |-> "GetParameter", ok |-> TRUE]]
               /\ CacheValues' = [i \in 1..4 |-> ParamValue(ParamNames[i], loads)]]_vars

C14_Witness ==
  /\ cacheLoaded
  /\ \E p, q \in Procs :
       /\ p # q
       /\ Times(p, "GetParameter") = 4
       /\ Times(q, "GetParameter") = 0
       /\ CalledOK(q, "Moderate")

\* C15: a failed parameter fetch aborts the load: the invocation is rejected
\* as Internal, the cache stays unloaded and unlocked, no fetched value is
\* kept in it (an unloaded cache holds none of the four values), and a later
\* load can run and succeed.
C15_FailedLoadAborts ==
  /\ [](~cacheLoaded => CacheValues = << <<>>, <<>>, <<>>, <<>> >>)
  /\ [][\A p \in Procs :
          FailedCall(p, "GetParameter")
          => /\ pc'[p] = "rejected"
             /\ result'[p].Code = ErrorInternal
             /\ ~cacheLoaded'
             /\ cacheMu' = NoProc
             /\ fetched'[p] = <<>>
             /\ CacheValues' = << <<>>, <<>>, <<>>, <<>> >>]_vars
  /\ [][\A p \in Procs :
          (pc[p] = "lock" /\ pc'[p] = "load") => ~cacheLoaded /\ loads' = loads + 1]_vars

C15_Witness ==
  /\ cacheLoaded
  /\ loads = 2
  /\ CacheValues = [i \in 1..4 |-> ParamValue(ParamNames[i], 2)]
  /\ \E p \in Procs : Called(p, "Moderate")

\* C16: at most one load is in progress at any time, its caller holding the
\* write lock; while it is in progress no other caller inside ensureConfig
\* moves; once the cache is loaded nobody is loading.
C16_OneLoadAtATime ==
  /\ [](/\ Cardinality({p \in Procs : pc[p] = "load"}) <= 1
        /\ \A p \in Procs : pc[p] = "load" <=> cacheMu = p
        /\ cacheLoaded => \A p \in Procs : pc[p] # "load")
  /\ [][\A q \in Procs :
          (cacheMu # NoProc /\ cacheMu # q /\ pc[q] \in {"ensureConfig", "lock"})
          => pc'[q] = pc[q] /\ calls'[q] = calls[q]]_vars

C16_Witness ==
  \E p, q \in Procs :
    /\ pc[p] = "load"
    /\ Len(fetched[p]) = 2
    /\ pc[q] = "lock"

CacheOfLoad(n) == CacheValues = [i \in 1..4 |-> ParamValue(ParamNames[i], n)]

\* C18: a loaded cache holds the four values fetched by one and the same
\* load and never changes again; an invocation is past ensureConfig, and
\* calls Chat, only with the cache loaded in this way.
C18_CacheImmutable ==
  /\ [](cacheLoaded => \E n \in 1..loads : CacheOfLoad(n))
  /\ [][cacheLoaded => CacheValues' = CacheValues]_vars
  /\ [](\A p \in Procs :
          pc[p] \in {"turnCheck", "moderate", "history", "chat", "save", "done"}
          => cacheLoaded)
  /\ [][\A p \in Procs :
          NewCall(p, "Chat")
          => /\ cacheLoaded
             /\ \E n \in 1..loads : CacheOfLoad(n)
             /\ CacheValues' = CacheValues]_vars

C18_Witness ==
  /\ CacheOfLoad(2)
  /\ \E p \in Procs : CalledOK(p, "Chat") /\ pc[p] = "save"

\* The invocation of p is past the resolution of the conversation id.
PastTurnCheck(p) == pc[p] \in {"moderate", "history", "chat", "save", "done"}

\* C19: with a conversation id that is non-empty after trimming, Ask uses
\* the trimmed id for the turn check, the history read, the persistence and
\* the output; with an absent or all-white-space id it makes no turn-count
\* read and generates an id that no conversation of the table and no other
\* invocation has; the conversation id of a successful Ask is non-empty.
C19_ConversationID ==
  /\ [](\A p \in Procs :
          /\ Blank(in[p].ConversationID) => ~Called(p, "GetConversationTurnCount")
          /\ PastTurnCheck(p)
             => /\ convID[p] # <<>>
                /\ IF Blank(in[p].ConversationID)
                     THEN convID[p] # ClientConvID
                     ELSE /\ convID[p] = TrimSpace(in[p].ConversationID)
                          /\ CalledOK(p, "GetConversationTurnCount")
          /\ pc[p] = "done"
             => /\ out[p].ConversationID = convID[p]
                /\ out[p].ConversationID # <<>>
                /\ saved[p][1].ConversationID = convID[p])
  /\ [][\A p \in Procs :
          /\ (pc[p] = "turnCheck" /\ PastTurnCheck(p)' /\ Blank(in[p].ConversationID))
             => /\ msgs[convID'[p]] = <<>>
                /\ ~meta[convID'[p]].exists
                /\ \A q \in Procs \ {p} : convID[q] # convID'[p]
          /\ (pc[p] = "turnCheck" /\ PastTurnCheck(p)' /\ ~Blank(in[p].ConversationID))
             => existingTurns'[p] = PersistedTurns(TrimSpace(in[p].ConversationID))
          /\ (pc[p] = "history" /\ pc'[p] = "chat" /\ ~Blank(in[p].ConversationID))
             => history'[p] = GetHistory(TrimSpace(in[p].ConversationID), maxContextItems)
          /\ (pc[p] = "save" /\ pc'[p] = "done")
             => /\ Len(msgs'[convID[p]]) = Len(msgs[convID[p]]) + 1
                /\ meta'[convID[p]].exists
                /\ \A c \in ConvKeys \ {convID[p]} :
                     msgs'[c] = msgs[c] /\ meta'[c] = meta[c]]_vars

C19_Witness ==
  \E p \in Procs :
    /\ pc[p] = "done"
    /\ in[p].ConversationID = <<" ">>
    /\ out[p].ConversationID = newUUID(2)
    /\ msgs[newUUID(1)] # <<>>

\* The place of a collaborator call in the workflow.
CallRank(op) ==
  CASE op = "GetParameter" -> 1
    [] op = "GetConversationTurnCount" -> 2
    [] op = "Moderate" -> 3
    [] op = "GetHistory" -> 4
    [] op = "Chat" -> 5
    [] op = "SaveCompletedTurn" -> 6

\* The place of a position of Ask in the workflow.
PcRank(at) ==
  CASE at = "idle" -> 0
    [] at = "ensureConfig" -> 1
    [] at = "lock" -> 2
    [] at = "load" -> 3
    [] at = "turnCheck" -> 4
    [] at = "moderate" -> 5
    [] at = "history" -> 6
    [] at = "chat" -> 7
    [] at = "save" -> 8
    [] at \in {"done", "rejected"} -> 9

\* The calls of p so far are in the order of the workflow, each after the
\* success of the one before.
CallsInOrder(p) ==
  /\ \A i, j \in 1..Len(calls[p]) :
       i < j => /\ CallRank(calls[p][i].op) <= CallRank(calls[p][j].op)
                /\ CallRank(calls[p][i].op) = CallRank(calls[p][j].op)
                   => calls[p][i].op = "GetParameter"
                /\ calls[p][i].ok
  /\ Times(p, "GetParameter") <= 4
  /\ Called(p, "GetConversationTurnCount") => ~Blank(in[p].ConversationID)
  /\ Called(p, "Moderate")
     => (~Blank(in[p].ConversationID) => CalledOK(p, "GetConversationTurnCount"))
  /\ Called(p, "GetHistory") => CalledOK(p, "Moderate")
  /\ Called(p, "Chat") => CalledOK(p, "GetHistory")
  /\ Called(p, "SaveCompletedTurn") => CalledOK(p, "Chat")
  /\ pc[p] = "done" => CalledOK(p, "SaveCompletedTurn")

\* This step calls GetParameter only with the cache unloaded and moves p, if at
\* all, forward in Ask or from its end to the next request.
MovesForward(p) ==
  /\ NewCall(p, "GetParameter") => ~cacheLoaded
  /\ pc'[p] # pc[p]
     => \/ PcRank(pc'[p]) > PcRank(pc[p])
        \/ pc[p] \in {"done", "rejected"} /\ pc'[p] = "idle"

\* C20: the collaborator calls of one invocation occur in the order
\* GetParameter (at most four, only with the cache unloaded),
\* GetConversationTurnCount (only with a supplied id), Moderate, GetHistory,
\* Chat, SaveCompletedTurn, each of the last five at most once; every call
\* but the last has succeeded and none of Moderate, GetHistory, Chat is
\* skipped before a later one; the invocation only moves forward, and it
\* does not stay for ever between its start and its end as done or rejected.
C20_WorkflowOrder ==
  /\ [](\A p \in Procs : CallsInOrder(p))
  /\ [][\A p \in Procs : MovesForward(p)]_vars
  /\ \A p \in Procs : []<>(pc[p] \in {"idle", "done", "rejected"})

C20_Witness ==
  \E p, q \in Procs :
    /\ p # q
    /\ pc[p] = "done"
    /\ Ops(p) = << "GetParameter", "GetParameter", "GetParameter", "GetParameter",
                   "GetConversationTurnCount", "Moderate", "GetHistory", "Chat",
                   "SaveCompletedTurn" >>
    /\ pc[q] = "rejected"
    /\ Ops(q) = << "GetConversationTurnCount", "Moderate", "GetHistory", "Chat" >>

\* The kinds of a classified error.
ErrorCodes ==
  {ErrorInvalidInput, ErrorInvalidQuestion, ErrorRateLimited, ErrorUpstream, ErrorInternal}

\* The returns of Ask with an error: the step that ended the invocation, the
\* class of its failure, and the kind and the reason of the error returned.
Rejections ==
  { << "validate", "empty", ErrorInvalidInput, "empty_question" >>,
    << "validate", "too_long", ErrorInvalidInput, "question_too_long" >>,
    << "GetParameter", "failed", ErrorInternal, "ssm_load_error" >>,
    << "GetConversationTurnCount", "failed", ErrorInternal, "dynamodb_turn_count_error" >>,
    << "GetConversationTurnCount", "refused", ErrorInvalidInput, "conversation_turn_limit" >>,
    << "Moderate", "rate_limited", ErrorRateLimited, "moderation_rate_limited" >>,
    << "Moderate", "failed", ErrorUpstream, "moderation_error" >>,
    << "Moderate", "refused", ErrorInvalidQuestion, "moderation_flagged" >>,
    << "GetHistory", "failed", ErrorInternal, "dynamodb_history_error" >>,
    << "Chat", "rate_limited", ErrorRateLimited, "openai_rate_limited" >>,
    << "Chat", "failed", ErrorUpstream, "openai_error" >>,
    << "Chat", "malformed", ErrorUpstream, "openai_malformed_response" >>,
    << "Chat", "refused", ErrorInvalidQuestion, "relevance_off_topic" >>,
    << "SaveCompletedTurn", "failed", ErrorInternal, "dynamodb_write_error" >> }

\* The step at which the invocation of p stands: its last collaborator call,
\* or the validation of the question before any call.
FailingStep(p) == IF calls[p] = <<>> THEN "validate" ELSE calls[p][Len(calls[p])].op

\* The class of the failure of that step: the call returned an error (with
\* or without the status 429), or it returned a value Ask refuses.
FailureClass(p) ==
  IF calls[p] = <<>>
    THEN IF TrimSpace(in[p].Question) = <<>> THEN "empty" ELSE "too_long"
    ELSE LET c == calls[p][Len(calls[p])]
         IN  IF ~c.ok
               THEN IF c.op \in {"Moderate", "Chat"} /\ isRateLimited(result[p].Err)
                      THEN "rate_limited" ELSE "failed"
               ELSE IF c.op = "Chat" /\ ~parseScopedAnswer(raw[p]).ok THEN "malformed"
               ELSE "refused"

\* C21: every return of Ask with an error carries one of the five kinds and
\* the reason that the table of the failing step and the class of the failure
\* gives, a constant of the code independent of the question and of every
\* fetched value; that table has one row per step and class; a collaborator
\* call that returned an error is the last call of its invocation, which is
\* then rejected; and only a rejected invocation has an error.
C21_ClassifiedErrors ==
  /\ \A r, s \in Rejections : (r[1] = s[1] /\ r[2] = s[2]) => r = s
  /\ \A p \in Procs :
       /\ pc[p] = "rejected"
          => /\ result[p].Code \in ErrorCodes
             /\ << FailingStep(p), FailureClass(p), result[p].Code, result[p].Reason >>
                  \in Rejections
       /\ \A i \in 1..Len(calls[p]) :
            ~calls[p][i].ok => (i = Len(calls[p]) /\ pc[p] = "rejected")
       /\ pc[p] # "rejected" => result[p] = NoResult

C21_Witness ==
  \E p \in Procs :
    /\ Returned(p, ErrorUpstream, "moderation_error")
    /\ Ops(p) = << "GetParameter", "GetParameter", "GetParameter", "GetParameter",
                   "Moderate" >>
    /\ result[p].Err \in KeyFailures
    /\ in[p].Question = << " ", "a", " " >>

\* C22: when SaveCompletedTurn fails, Ask returns an Internal error and an
\* output with neither the computed answer nor the conversation id, and
\* nothing is written; every rejected invocation returns the empty output.
C22_AnswerDiscarded ==
  \A p \in Procs :
    /\ pc[p] = "rejected" => out[p] = EmptyOutput
    /\ (Called(p, "SaveCompletedTurn") /\ ~CalledOK(p, "SaveCompletedTurn"))
       => /\ pc[p] = "rejected"
          /\ result[p].Code = ErrorInternal
          /\ answer[p] # <<>>
          /\ convID[p] # <<>>
          /\ out[p].Answer = <<>>
          /\ out[p].ConversationID = <<>>
          /\ committed[p] = {}

C22_Witness ==
  \E p \in Procs :
    /\ pc[p] = "rejected"
    /\ Called(p, "SaveCompletedTurn")
    /\ ~CalledOK(p, "SaveCompletedTurn")
    /\ answer[p] = <<"y">>
    /\ convID[p] = ClientConvID
    /\ out[p] = EmptyOutput

\* C23: parseScopedAnswer returns no error only for a text that holds, between
\* optional white space, exactly one JSON object with an in_scope boolean and
\* an answer string, no other member and nothing after the object.
C23_StrictParse ==
  LET OneScopedObject(text) ==
        LET t == TrimSpaceItems(text)
        IN  /\ Len(t) = 1
            /\ t[1].t = "object"
            /\ LET ms == t[1].members
               IN  /\ \A i \in 1..Len(ms) : ms[i].k \in {"in_scope", "answer"}
                   /\ \E i \in 1..Len(ms) : ms[i].k = "in_scope" /\ ms[i].v.ty = "bool"
                   /\ \E i \in 1..Len(ms) : ms[i].k = "answer" /\ ms[i].v.ty = "string"
  IN  \A p \in Procs :
        (CalledOK(p, "Chat") /\ parsed[p].ok) => OneScopedObject(raw[p])

\* C23, the part the decoder enforces: parseScopedAnswer returns no error
\* only for a text that holds one value and nothing after it, the value being
\* null or an object whose members all name one of the two fields and hold
\* null or a value of the field's type.
C23_LenientParse ==
  LET OneLenientValue(text) ==
        LET t == TrimSpaceItems(text)
        IN  /\ Len(t) = 1
            /\ t[1].t \in {"object", "null"}
            /\ \A i \in 1..Len(t[1].members) :
                 LET m == t[1].members[i]
                 IN  \/ m.k = "in_scope" /\ m.v.ty \in {"bool", "null"}
                     \/ m.k = "answer" /\ m.v.ty \in {"string", "null"}
  IN  \A p \in Procs :
        (CalledOK(p, "Chat") /\ parsed[p].ok) => OneLenientValue(raw[p])

C23_Witness ==
  \E p \in Procs :
    /\ raw[p] = << JObject(<<>>) >>
    /\ parsed[p] = ScopedAnswer(FALSE, <<>>)
    /\ Returned(p, ErrorInvalidQuestion, "relevance_off_topic")

RemoveAt(s, i) == SubSeq(s, 1, i - 1) \o SubSeq(s, i + 1, Len(s))

\* The prompt Ask builds for p from the given records.
PromptOf(p, records) ==
  buildPromptMessages(promptContext(pinnedPrompt, resume, interests),
                      TrimSpace(in[p].Question), records)

C26_ReplaysAnswered ==
  \A p \in Procs :
    Called(p, "Chat")
    => LET answered == {i \in 1..Len(history[p]) :
                          ~Blank(history[p][i].Text) /\ ~Blank(history[p][i].Answer)}
       IN  /\ Len(sent[p]) = 2 + 2 * Cardinality(answered) + 1
           /\ \A i \in answered :
                \E j \in 3..(Len(sent[p]) - 2) :
                  /\ sent[p][j] = ChatMessage("user", TrimSpace(history[p][i].Text))
                  /\ sent[p][j + 1] =
                       ChatMessage("assistant", TrimSpace(history[p][i].Answer))

C26_Witness ==
  \E p \in Procs :
    /\ Called(p, "Chat")
    /\ history[p] = << Message(<<"a">>, <<"x">>, "") >>
    /\ Len(sent[p]) = 3

\* The n newest elements of a sequence kept oldest first.
LastN(s, n) == SubSeq(s, IF Len(s) > n THEN Len(s) - n + 1 ELSE 1, Len(s))

\* historyToPromptMessages, lines 75-82: the record is replayed.
Eligible(m) == m.Status = statusComplete /\ ~Blank(m.Text) /\ ~Blank(m.Answer)

\* The messages are the two system messages, then for each of the records, in
\* order, its question as user message and its answer as assistant message,
\* then the question as user message.
ReplaysInOrder(messages, records, question) ==
  /\ Len(messages) = 2 + 2 * Len(records) + 1
  /\ messages[1].Role = "system"
  /\ messages[2].Role = "system"
  /\ \A j \in 1..Len(records) :
       /\ messages[2 * j + 1] = ChatMessage("user", TrimSpace(records[j].Text))
       /\ messages[2 * j + 2] = ChatMessage("assistant", TrimSpace(records[j].Answer))
  /\ messages[Len(messages)] = ChatMessage("user", question)

\* C27: the history messages passed to Chat are those of the eligible records
\* among the maxContextItems newest of the conversation, oldest first as the
\* table orders them, although the query returns the records newest first;
\* the current question is the last message.
C27_ChronologicalOrder ==
  \A p \in Procs :
    (Called(p, "Chat") /\ pc[p] # "done")
    => /\ history[p] = LastN(msgs[convID[p]], maxContextItems)
       /\ ReplaysInOrder(sent[p],
            SelectSeq(LastN(msgs[convID[p]], maxContextItems), Eligible),
            TrimSpace(in[p].Question))

C27_Witness ==
  \E p \in Procs :
    /\ Called(p, "Chat")
    /\ maxContextItems = 2
    /\ msgs[convID[p]] = << Message(<<"a">>, <<"x">>, statusComplete),
                            Message(<<" ", "b">>, <<"y", " ">>, statusComplete),
                            Message(<<"a">>, <<"x">>, statusComplete) >>
    /\ Len(sent[p]) = 7
    /\ sent[p][3] = ChatMessage("user", <<"b">>)
    /\ sent[p][5] = ChatMessage("user", <<"a">>)
    /\ sent[p][7] = ChatMessage("user", <<"a">>)

\* C28: buildPromptMessages returns 2 + 2k + 1 messages for the k eligible
\* records of the history it is given: the system message with the policy
\* text, the system message with the profile context, for each eligible record
\* in order its user message followed by its assistant message, and the user
\* message with the current question; every message is fixed by the inputs.
C28_PromptShape ==
  \A p \in Procs :
    Called(p, "Chat")
    => /\ ReplaysInOrder(sent[p], SelectSeq(history[p], Eligible),
                         TrimSpace(in[p].Question))
       /\ sent[p][1] = ChatMessage("system", buildPolicyPrompt)
       /\ sent[p][2] = ChatMessage("system",
            buildProfileContextPrompt(promptContext(pinnedPrompt, resume, interests)))
       /\ sent[p][2].Content # <<>>
       /\ sent[p][2].Content # buildPolicyPrompt

C28_Witness ==
  \E p \in Procs :
    /\ Called(p, "Chat")
    /\ Len(history[p]) = 3
    /\ \A i \in 1..3 : Eligible(history[p][i])
    /\ Len(sent[p]) = 9
    /\ sent[p][9] = ChatMessage("user", <<"a">>)

\* C29: Handle answers an error of the use case with the status of its kind
\* (InvalidInput 400, InvalidQuestion 400, RateLimited 429, Upstream 502,
\* Internal 500, and 500 INTERNAL_ERROR for an error of an unknown kind or
\* without kind) and a body holding the error code and nothing else, answers
\* a body that does not decode with 400 INVALID_INPUT without invoking the use
\* case, and never returns an error itself.
C29_HandlerMapping ==
  \A p \in Procs :
    pc[p] = "responded"
    => /\ response[p].Err = NoErr
       /\ ~Unmarshals(event[p])
          => /\ response[p] = Response(400, [error |-> ErrorInvalidInput])
             /\ in[p] = NoInput
             /\ calls[p] = <<>>
             /\ result[p] = NoResult
       /\ (Unmarshals(event[p]) /\ result[p] # NoResult)
          => LET code == result[p].Code
             IN  /\ code = ErrorInvalidInput => response[p].StatusCode = 400
                 /\ code = ErrorInvalidQuestion => response[p].StatusCode = 400
                 /\ code = ErrorRateLimited => response[p].StatusCode = 429
                 /\ code = ErrorUpstream => response[p].StatusCode = 502
                 /\ code = ErrorInternal => response[p].StatusCode = 500
                 /\ code \in ErrorCodes => response[p].Body = [error |-> code]
                 /\ code \notin ErrorCodes
                    => response[p] = Response(500, [error |-> ErrorInternal])

C29_Witness ==
  \E p \in Procs :
    /\ pc[p] = "responded"
    /\ event[p].Kind = "object"
    /\ Called(p, "Moderate")
    /\ result[p].Reason = "moderation_rate_limited"
    /\ response[p] = Response(429, [error |-> ErrorRateLimited])


\* The invocation of p ended at a failed call to the parameter store or to the
\* table: one of the four configuration fetches, the fetch of the API key
\* inside Moderate or Chat, or a read or write of the conversation table.
StoreOrTableFailure(p) ==
  /\ pc[p] \in {"rejected", "responded"}
  /\ calls[p] # <<>>
  /\ LET c == calls[p][Len(calls[p])]
     IN  /\ ~c.ok
         /\ \/ c.op \in LocalCalls
            \/ c.op \in {"Moderate", "Chat"} /\ keyErr # NoErr

\* C30: a failure of the parameter store met while serving a request, the
\* fetch of the API key on the first Moderate or Chat call included, and a
\* failure of the conversation table end as kind Internal and as the response
\* 500 INTERNAL_ERROR, never as Upstream or RateLimited.
C30_StoreFailuresInternal ==
  \A p \in Procs :
    StoreOrTableFailure(p)
    => /\ result[p].Code = ErrorInternal
       /\ pc[p] = "responded"
          => response[p] = Response(500, [error |-> ErrorInternal])

\* C30 (as the code has it): the four configuration fetches and the table
\* calls end as Internal and 500; a failed fetch of the API key ends as the
\* failure of the Moderate call that met it, RateLimited and 429 when the
\* error carries the status 429 and Upstream and 502 otherwise.
C30_KeyFailureAsUpstream ==
  \A p \in Procs :
    StoreOrTableFailure(p)
    => LET c == calls[p][Len(calls[p])]
           code == IF c.op \in LocalCalls THEN ErrorInternal
                   ELSE IF isRateLimited(keyErr) THEN ErrorRateLimited
                   ELSE ErrorUpstream
           status == CASE code = ErrorInternal -> 500
                       [] code = ErrorRateLimited -> 429
                       [] code = ErrorUpstream -> 502
       IN  /\ result[p].Code = code
           /\ c.op \notin LocalCalls
              => /\ c.op = "Moderate"
                 /\ result[p].Err = keyErr
                 /\ result[p].Reason \in {"moderation_error", "moderation_rate_limited"}
           /\ pc[p] = "responded" => response[p] = Response(status, [error |-> code])

C30_Witness ==
  \E p \in Procs :
    /\ pc[p] = "responded"
    /\ keyErr = Wrap(Wrap(<<PlainErr>>))
    /\ Ops(p)[Len(Ops(p))] = "Moderate"
    /\ result[p].Err = keyErr
    /\ response[p] = Response(502, [error |-> ErrorUpstream])


\* C31: the API key is fetched from the parameter store at most once per
\* Client, however many Moderate and Chat calls are made and however they
\* interleave: the fetch, once done, is never repeated and its result never
\* changes, and resolveAPIKey returns that result to every call.
C31_KeyFetchedOnce ==
  /\ [](/\ keyFetches <= 1
        /\ keyDone <=> keyFetches = 1
        /\ keyDone => \/ apiKey = Token(1) /\ keyErr = NoErr
                      \/ apiKey = <<>> /\ keyErr \in KeyFailures
        /\ \A p \in Procs :
             resolved[p].done => keyDone /\ resolved[p] = Resolved(apiKey, keyErr))
  /\ [][keyDone => UNCHANGED <<keyDone, keyErr, apiKey, keyFetches>>]_vars

C31_Witness ==
  \E p, q \in Procs :
    /\ pc[p] = KeyPc("Moderate", "returned")
    /\ pc[q] = KeyPc("Chat", "returned")
    /\ asks = MaxCalls
    /\ keyFetches = 1
    /\ resolved[p] = Resolved(Token(1), NoErr)
    /\ resolved[q] = resolved[p]


\* The invocations that have written a message record of conversation c, and
\* the number of records of c above the cap.
Writers(c) == { p \in Procs : convID[p] = c /\ "message" \in committed[p] }
Excess(c) == Len(msgs[c]) - maxConversationTurns

BlockingSteps == {"wait", "load", "turnCheck", "moderate", "history", "chat", "save"}
StepCall(at) ==
  CASE at \in {"wait", "load"} -> "GetParameter"
    [] at = "turnCheck" -> "GetConversationTurnCount"
    [] at = "moderate" -> "Moderate"
    [] at = "history" -> "GetHistory"
    [] at = "chat" -> "Chat"
    [] at = "save" -> "SaveCompletedTurn"

\* An invocation whose ctx was done during one of the steps never completes
\* and writes nothing, and when it has returned, it has returned the failure
\* of the call of that step.
AbortedAt(steps) ==
  \A p \in Procs :
    cancelledAt[p] \in steps
    => /\ pc[p] # "done"
       /\ committed[p] = {}
       /\ pc[p] = "rejected"
          => /\ FailingStep(p) = StepCall(cancelledAt[p])
             /\ ~calls[p][Len(calls[p])].ok
             /\ << FailingStep(p), FailureClass(p), result[p].Code, result[p].Reason >>
                  \in Rejections

\* Such an invocation makes no call but the failing call of that step, which
\* ends it and changes neither the table nor the cache.
AbortingAt(steps) ==
  \A p \in Procs :
    (cancelledAt[p] \in steps /\ calls'[p] # calls[p])
    => /\ calls'[p][Len(calls'[p])] = [op |-> StepCall(cancelledAt[p]), ok |-> FALSE]
       /\ pc'[p] = "rejected"
       /\ UNCHANGED <<msgs, meta, cacheLoaded, resume, interests, pinnedPrompt, openaiModel>>

\* C33: when the ctx of an invocation is done while a blocking step is in
\* progress (the configuration load, the wait for another invocation's load
\* included, the turn-count read, the moderation, the history read, the
\* generation, the persist), that step fails, Ask returns the error with the
\* kind and the reason of that step, no later collaborator is called and
\* nothing is written.
C33_StepAborts == []AbortedAt(BlockingSteps) /\ [][AbortingAt(BlockingSteps)]_vars

\* C33 (as the code has it): the same for every step but the wait for the
\* write lock of the cache; and wherever the ctx was done, the collaborator
\* call in progress or made next fails and is the invocation's last, the
\* error has the kind and the reason of the step of that call, and the
\* invocation writes nothing.
C33_CancelledStepRejects ==
  /\ []AbortedAt(BlockingSteps \ {"wait"})
  /\ [][AbortingAt(BlockingSteps \ {"wait"})]_vars
  /\ [](\A p \in Procs :
          Cancelled(p)
          => /\ pc[p] # "done"
             /\ committed[p] = {}
             /\ pc[p] = "rejected"
                => /\ calls[p] # <<>>
                   /\ ~calls[p][Len(calls[p])].ok
                   /\ << FailingStep(p), FailureClass(p), result[p].Code, result[p].Reason >>
                        \in Rejections
                   /\ \/ FailureClass(p) = "failed"
                      \/ FailingStep(p) = "Moderate" /\ result[p].Err = keyErr)
  /\ [][\A p \in Procs :
          (Cancelled(p) /\ calls'[p] # calls[p])
          => /\ pc'[p] = "rejected"
             /\ ~calls'[p][Len(calls'[p])].ok
             /\ UNCHANGED <<msgs, meta, cacheLoaded, resume, interests, pinnedPrompt,
                            openaiModel>>]_vars

\* The ctx was done while the invocation was blocked behind another one's
\* load; the load succeeded, and the invocation went on to the turn-count
\* read, which failed.
C33_Witness ==
  \E p \in Procs :
    /\ cancelledAt[p] = "wait"
    /\ cacheLoaded
    /\ Returned(p, ErrorInternal, "dynamodb_turn_count_error")
    /\ Ops(p) = << "GetConversationTurnCount" >>
    /\ result[p].Err = CtxErr


\* A step of the invocation of p.
StepOfAsk(p) ==
  \/ EnsureConfigRead(p)
  \/ EnsureConfigLock(p)
  \/ LoadParamConc(p)
  \/ TurnCheck(p)
  \/ ModerateCancel(p)
  \/ HistoryFetch(p)
  \/ ChatCancel(p)
  \/ Persist(p)

\* C34: an invocation that waits in ensureConfig for the write lock while
\* another invocation loads, and whose ctx is done, does not have to wait for
\* the end of that load: it can take its next step, the return of the ctx's
\* error, at once.
C34_WaiterAborts ==
  \A p \in Procs :
    (pc[p] = "lock" /\ Cancelled(p)) => ENABLED StepOfAsk(p)

\* C34 (as the code has it): an invocation leaves the wait for the write lock
\* only when no invocation holds it, whether its ctx is done or not; with its
\* ctx done it then goes on to the load or to the turn-count read, whose call
\* fails.
C34_WaiterWaits ==
  /\ [][\A p \in Procs :
          (pc[p] = "lock" /\ pc'[p] # "lock")
          => /\ cacheMu = NoProc
             /\ pc'[p] = IF cacheLoaded THEN "turnCheck" ELSE "load"
             /\ UNCHANGED <<calls, result>>]_vars
  /\ [](\A p \in Procs :
          (cancelledAt[p] \in {"wait", "lock", "ensureConfig"} /\ pc[p] = "rejected")
          => /\ Ops(p) \in { <<"GetParameter">>, <<"GetConversationTurnCount">> }
             /\ result[p].Reason \in {"ssm_load_error", "dynamodb_turn_count_error"})

\* The ctx of the waiting invocation is done and the load of the other one
\* is still in flight.
C34_Witness ==
  \E p, q \in Procs :
    /\ pc[p] = "lock" /\ cancelledAt[p] = "wait"
    /\ pc[q] = "load" /\ cacheMu = q /\ Len(fetched[q]) = 2
    /\ ~ENABLED StepOfAsk(p)


\* C35: with the invocations of a conversation id one after the other, each
\* successful invocation adds one message record and raises the persisted
\* turns by exactly 1, and no other step changes the table; an invocation
\* that reads 10 or more turns is rejected with conversation_turn_limit; a
\* conversation never holds more than 10 message records, and its turns
\* equal the number of its records.
C35_SequentialTurns ==
  /\ [](\A c \in ConvKeys :
          /\ Len(msgs[c]) <= maxConversationTurns
          /\ PersistedTurns(c) = Len(msgs[c])
          /\ meta[c].exists <=> msgs[c] # <<>>)
  /\ [][/\ \A p \in Procs :
            /\ (pc[p] = "save" /\ pc'[p] = "done")
               => /\ PersistedTurns(convID[p])' = PersistedTurns(convID[p]) + 1
                  /\ Len(msgs'[convID[p]]) = Len(msgs[convID[p]]) + 1
                  /\ \A c \in ConvKeys \ {convID[p]} :
                       msgs'[c] = msgs[c] /\ meta'[c] = meta[c]
            /\ ( /\ NewCall(p, "GetConversationTurnCount")
                 /\ ~FailedCall(p, "GetConversationTurnCount")
                 /\ PersistedTurns(convID'[p]) >= maxConversationTurns )
               => Returned(p, ErrorInvalidInput, "conversation_turn_limit")'
       /\ (msgs' # msgs \/ meta' # meta)
          => \E p \in Procs : pc[p] = "save" /\ pc'[p] = "done"]_vars

\* The tenth turn has been written by an invocation, and the next invocation
\* with the id has been rejected.
C35_Witness ==
  \E p \in Procs :
    /\ Returned(p, ErrorInvalidInput, "conversation_turn_limit")
    /\ convID[p] = ClientConvID
    /\ Len(msgs[ClientConvID]) = maxConversationTurns
    /\ msgs[ClientConvID][maxConversationTurns] # SeedMessage
    /\ meta[ClientConvID] = Meta(maxConversationTurns)


\* C36: in every interleaving, the turns that an invocation passes to
\* SaveCompletedTurn, and so the turns of every metadata item of the table,
\* lie between 1 and 10, also when a conversation holds more than 10 message
\* records.
C36_TurnsInRange ==
  /\ \A p \in Procs : \A i \in 1..Len(saved[p]) :
       /\ saved[p][i].Turns \in 1..maxConversationTurns
       /\ saved[p][i].Turns = existingTurns[p] + 1
  /\ \A c \in ConvKeys : meta[c].exists => meta[c].turns \in 1..maxConversationTurns

C36_Witness ==
  \E p, q \in Procs :
    /\ p # q
    /\ saved[p] # <<>> /\ saved[q] # <<>>
    /\ saved[p][1].Turns = maxConversationTurns
    /\ saved[q][1].Turns = maxConversationTurns
    /\ saved[p][1].ConversationID = saved[q][1].ConversationID
    /\ Len(msgs[saved[p][1].ConversationID]) > maxConversationTurns
    /\ meta[saved[p][1].ConversationID].turns = maxConversationTurns


ModerateAfterKeyFailure(p) == NewCall(p, "Moderate") /\ keyDone /\ keyErr # NoErr

CacheContent == <<cacheLoaded, resume, interests, pinnedPrompt, openaiModel>>

\* This step is the successful end of the load that p performs.
LoadCompletes(p) ==
  /\ pc[p] = "load" /\ pc'[p] = "turnCheck"
  /\ ~cacheLoaded /\ cacheLoaded'
  /\ Ops(p)' = << "GetParameter", "GetParameter", "GetParameter", "GetParameter" >>

\* Every step but the successful persist step of an invocation leaves the
\* table unchanged, so that a rejected invocation has written nothing; a
\* loaded cache never changes, and the cache changes only at the successful
\* end of a load.
StoreAndCacheFrame ==
  /\ [][/\ (msgs' # msgs \/ meta' # meta)
           => \E p \in Procs : pc[p] = "save" /\ pc'[p] = "done"
        /\ cacheLoaded => UNCHANGED CacheContent
        /\ CacheContent' # CacheContent => \E p \in Procs : LoadCompletes(p)
        /\ UNCHANGED svcVars]_vars
  /\ [](\A p \in Procs : pc[p] = "rejected" => committed[p] = {})

\* C39 (as stated): a rejected invocation leaves the table and a loaded cache
\* unchanged, and the cache, when the invocation performed the successful
\* load, is the only state it can change: the key of the OpenAI client is
\* left as it was.
C39_RejectedFrame_Stated ==
  /\ StoreAndCacheFrame
  /\ [][\A p \in Procs :
          (pc[p] # "rejected" /\ pc'[p] = "rejected") => UNCHANGED clientVars]_vars

\* C39 (amended): the same, with the key of the OpenAI client as the second
\* state a rejected invocation can change: it changes only in the first
\* Moderate call of the client, whatever the outcome of that call.
C39_RejectedFrame ==
  /\ StoreAndCacheFrame
  /\ [][clientVars' # clientVars
          => /\ ~keyDone /\ keyDone'
             /\ \E p \in Procs : NewCall(p, "Moderate")]_vars

\* The invocation loaded the cache, fetched the key and was rejected at the
\* moderation; nothing was written.
C39_Witness ==
  \E p \in Procs :
    /\ Returned(p, ErrorInvalidQuestion, "moderation_flagged")
    /\ Ops(p) = << "GetParameter", "GetParameter", "GetParameter", "GetParameter",
                   "Moderate" >>
    /\ cacheLoaded /\ loads = 1
    /\ keyFetches = 1 /\ apiKey = Token(1)
    /\ asks = 1
    /\ convID[p] = newUUID(1)
    /\ msgs[convID[p]] = <<>> /\ ~meta[convID[p]].exists

====
